---- MODULE Spec2Model ----
(***************************************************************************)
(* Model of the EvalAP experiment execution engine: the relational store   *)
(* (api/crud.py), the HTTP handlers that create, patch and retry           *)
(* experiments (api/endpoints.py), the request schemas (api/schemas.py)    *)
(* and the worker pool (api/runners/main.py).                              *)
(*                                                                         *)
(* api/models.py (table constraints) and api/runners (dispatch_tasks,      *)
(* dispatch_retries, process_task) are not part of the sources at hand;    *)
(* the definitions that stand for them follow the written specification    *)
(* and say so in their comment.                                            *)
(***************************************************************************)
EXTENDS Bags, FiniteSets, Integers, Sequences, TLC

VARIABLES
    experiments,   \* Experiment table: id -> row
    results,       \* Result table: id -> row
    answers,       \* Answer table: set of rows (each row has its primary key id)
    observations,  \* ObservationTable: set of rows
    expsets,       \* ExperimentSet table: set of ids
    queue,         \* task envelopes pushed by the dispatcher, not yet pulled (a bag)
    workers,       \* per worker thread: position in worker_routine and its session
    handlers,      \* per HTTP handler thread: the request being served
    nreq,          \* number of requests / calls issued so far
    last_commit,   \* worker whose upsert committed most recently (0: none yet)
    datasets       \* Dataset table: the name a dataset was created with -> row

vars == <<experiments, results, answers, observations, expsets, queue,
          workers, handlers, nreq, last_commit, datasets>>

\* ------------------------------------------------------------------------
\* Bounds
\* ------------------------------------------------------------------------
MaxExps == 1
DatasetSize == 2
MaxWorkers == 2
MaxHandlers == 1
MaxRequests == 1
MaxUpserts == 2
MaxPosts == 2
MaxCalls == 3
MaxSetExps == 4
MaxRepeat == 2
MaxDeleted == 2

ExpIds == 1..MaxExps
SetIds == {1}
Workers == 1..MaxWorkers
Handlers == 1..MaxHandlers
Lines == 0..(DatasetSize - 1)

\* number of (owner, line) slots of a table, an owner having at most two Results
SlotStride == 2 * MaxExps * DatasetSize

\* Python's None for a column or an optional request field
Null == "null"

\* The name of an experiment as patch_experimentset reads it: auto tells
\* whether it ends in __N (re.search(r"__\d+$", name)), n is that number and
\* stem what stands before it.
Name(stem, auto, n) == [stem |-> stem, auto |-> auto, n |-> n]

\* a name a client gives to an experiment
PlainName == Name("exp", FALSE, 0)

\* another one
OtherName == Name("other", FALSE, 0)

\* the name the clients give to an experiment set
SetName == "set"

\* ------------------------------------------------------------------------
\* Enums, registry and datasets
\* ------------------------------------------------------------------------
ExperimentStatus == {"pending", "running_answers", "running_metrics", "finished"}

MetricStatus == {"pending", "running", "finished"}

\* judge_exactness is registered in a module that is not part of the sources
\* at hand; its requirement set is the one the specification gives (8,
\* scenario 1)
JudgeRequire == [judge_exactness |-> {"output", "output_true"}]

\* require lists of the registered metrics
MetricRequire ==
    [nb_tokens_prompt |-> {"query"}, nb_tokens_completion |-> {"output"}] @@ JudgeRequire

Metrics == DOMAIN MetricRequire

\* The dataframes a dataset can be made of, by the name of the dataset: the
\* columns present and the number of rows.  A dataframe with neither a query
\* nor an output column is refused by DatasetCreate.to_table_init.
Datasets ==
    [dq   |-> [has_query |-> TRUE, has_output |-> FALSE, has_output_true |-> FALSE,
               size |-> DatasetSize],
     dqo  |-> [has_query |-> TRUE, has_output |-> TRUE, has_output_true |-> FALSE,
               size |-> DatasetSize],
     do   |-> [has_query |-> FALSE, has_output |-> TRUE, has_output_true |-> FALSE,
               size |-> DatasetSize],
     dqt  |-> [has_query |-> TRUE, has_output |-> FALSE, has_output_true |-> TRUE,
               size |-> DatasetSize],
     dqot |-> [has_query |-> TRUE, has_output |-> TRUE, has_output_true |-> TRUE,
               size |-> DatasetSize],
     dot  |-> [has_query |-> FALSE, has_output |-> TRUE, has_output_true |-> TRUE,
               size |-> DatasetSize]]

DatasetNames == DOMAIN Datasets

\* the datasets the experiments of the engine run on
EngineDatasets == {"dq", "dqo"}

\* The row of the Dataset table that crud.create_dataset stores for the
\* dataframe df posted under the name df: what DatasetCreate.to_table_init
\* returns, that is the name, the dataframe and what is computed from it.
\* A dataset is keyed by the name it was created with.
DatasetRow(df) ==
    [name |-> df, readme |-> Null, df |-> df,
     has_query |-> Datasets[df].has_query,
     has_output |-> Datasets[df].has_output,
     has_output_true |-> Datasets[df].has_output_true,
     size |-> Datasets[df].size]

\* the Dataset table rows with one more row for each of the names created
StoreDatasets(rows, created) ==
    [k \in DOMAIN rows \cup created |->
        IF k \in DOMAIN rows THEN rows[k] ELSE DatasetRow(k)]

\* the names of the stored datasets
StoredNames(rows) == {rows[k].name : k \in DOMAIN rows}

\* ------------------------------------------------------------------------
\* Answer and Observation rows
\* ------------------------------------------------------------------------
AnswerFields == {"answer", "error_msg"}

ObservationFields == {"score", "error_msg"}

FieldValues ==
    [answer |-> {Null, "a1"}, score |-> {Null, "s1"}, error_msg |-> {Null, "err"}]

AllValues == UNION {FieldValues[k] : k \in DOMAIN FieldValues}

\* the dicts a caller may pass to an upsert: any subset of the columns
Mappings(fields) ==
    UNION {{g \in [D -> AllValues] : \A k \in D : g[k] \in FieldValues[k]} :
           D \in SUBSET fields}

Max(S) == CHOOSE x \in S : \A y \in S : y <= x

Min(S) == CHOOSE x \in S : \A y \in S : x <= y

\* Primary key handed out by the database for a new row of owner (the
\* experiment or the Result) and line n.  The database hands out a key no
\* row has; which one is not observable, and the model picks it from the
\* slot of the row so that the order of the inserts is not part of the state.
NewId(rows, owner, n) ==
    LET slot == (owner - 1) * DatasetSize + n + 1
        taken == {r.id : r \in rows}
        free == {k \in 0..Cardinality(rows) : slot + k * SlotStride \notin taken}
    IN  slot + Min(free) * SlotStride

\* db.query(models.Answer).filter_by(num_line=..., experiment_id=...).first()
\* 0 stands for None (primary keys start at 1)
FindAnswer(rows, e, n) ==
    LET found == {r.id : r \in {x \in rows : x.experiment_id = e /\ x.num_line = n}}
    IN  IF found = {} THEN 0 ELSE Min(found)

\* db.query(models.ObservationTable).filter_by(num_line=..., result_id=...).first()
FindObservation(rows, r, n) ==
    LET found == {o.id : o \in {x \in rows : x.result_id = r /\ x.num_line = n}}
    IN  IF found = {} THEN 0 ELSE Min(found)

\* a bug: the row is rebuilt from the mapping, columns it does not name are lost
SetAttrsOverwrite(row, f) ==
    [k \in DOMAIN row |->
        IF k \in DOMAIN f THEN f[k]
        ELSE IF k \in DOMAIN FieldValues THEN Null ELSE row[k]]

\* for k, v in answer.items(): setattr(db_answer, k, v)
SetAttrs(row, f) ==
    [k \in DOMAIN row |-> IF k \in DOMAIN f THEN f[k] ELSE row[k]]

\* a bug: the update is carried out as delete + insert, the row gets a new key
UpdateRowReplace(rows, id, f) ==
    LET old == CHOOSE x \in rows : x.id = id
    IN  (rows \ {old}) \cup {[SetAttrs(old, f) EXCEPT !.id = NewId(rows, 1, old.num_line)]}

\* the update branch of an upsert, as flushed by db.commit()
UpdateRow(rows, id, f) ==
    LET old == CHOOSE x \in rows : x.id = id
    IN  (rows \ {old}) \cup {SetAttrs(old, f)}

\* models.Answer(experiment_id=experiment_id, num_line=num_line, **answer)
NewAnswer(rows, e, n, f) ==
    [id |-> NewId(rows, e, n), experiment_id |-> e, num_line |-> n,
     answer |-> IF "answer" \in DOMAIN f THEN f.answer ELSE Null,
     error_msg |-> IF "error_msg" \in DOMAIN f THEN f.error_msg ELSE Null]

\* models.ObservationTable(result_id=result_id, num_line=num_line, **observation)
NewObservation(rows, r, n, f) ==
    [id |-> NewId(rows, r, n), result_id |-> r, num_line |-> n,
     score |-> IF "score" \in DOMAIN f THEN f.score ELSE Null,
     error_msg |-> IF "error_msg" \in DOMAIN f THEN f.error_msg ELSE Null]

\* a bug: the table is declared without its unique constraint
NoUniqueConstraint(rows, owner, n) == TRUE

\* Unique constraint of the Answer table on (experiment_id, num_line):
\* TRUE when a row with this key may be inserted.
AnswerUnique(rows, e, n) ==
    \A x \in rows : ~(x.experiment_id = e /\ x.num_line = n)

\* Unique constraint of the ObservationTable on (result_id, num_line)
ObservationUnique(rows, r, n) ==
    \A x \in rows : ~(x.result_id = r /\ x.num_line = n)

\* a bug: the Answer table has no foreign key to the Experiment table
CommitAnswerNoForeignKey(rows, exps, e, n, f, found) ==
    IF found = 0
    THEN IF AnswerUnique(rows, e, n)
         THEN [rows |-> rows \cup {NewAnswer(rows, e, n, f)}, outcome |-> "returned"]
         ELSE [rows |-> rows, outcome |-> "raised"]
    ELSE IF \E x \in rows : x.id = found
         THEN [rows |-> UpdateRow(rows, found, f), outcome |-> "returned"]
         ELSE [rows |-> rows, outcome |-> "raised"]

\* db.commit() of upsert_answer: the pending INSERT or UPDATE reaches the
\* database.  found is the key read by the SELECT (0: insert).  The result
\* is the new table and whether the call returned or raised.
CommitAnswer(rows, exps, e, n, f, found) ==
    IF found = 0
    THEN IF e \in DOMAIN exps /\ AnswerUnique(rows, e, n)
         THEN [rows |-> rows \cup {NewAnswer(rows, e, n, f)}, outcome |-> "returned"]
         ELSE [rows |-> rows, outcome |-> "raised"]
    ELSE IF \E x \in rows : x.id = found
         THEN [rows |-> UpdateRow(rows, found, f), outcome |-> "returned"]
         ELSE [rows |-> rows, outcome |-> "raised"]

\* db.commit() of upsert_observation
CommitObservation(rows, ress, r, n, f, found) ==
    IF found = 0
    THEN IF r \in DOMAIN ress /\ ObservationUnique(rows, r, n)
         THEN [rows |-> rows \cup {NewObservation(rows, r, n, f)}, outcome |-> "returned"]
         ELSE [rows |-> rows, outcome |-> "raised"]
    ELSE IF \E x \in rows : x.id = found
         THEN [rows |-> UpdateRow(rows, found, f), outcome |-> "returned"]
         ELSE [rows |-> rows, outcome |-> "raised"]

\* upsert_answer run by one session with no other session in between
upsert_answer(rows, exps, e, n, f) ==
    CommitAnswer(rows, exps, e, n, f, FindAnswer(rows, e, n))

\* upsert_observation run by one session with no other session in between
upsert_observation(rows, ress, r, n, f) ==
    CommitObservation(rows, ress, r, n, f, FindObservation(rows, r, n))

\* ------------------------------------------------------------------------
\* Worker threads
\* ------------------------------------------------------------------------
\* A task envelope; result_id and metric_name are used by observation tasks.
Task(kind, e, n, r, m) ==
    [kind |-> kind, experiment_id |-> e, num_line |-> n, result_id |-> r,
     metric_name |-> m]

NoTask == Task(Null, 0, 0, 0, Null)

\* A worker that has not received anything yet
IdleWorker ==
    [pc |-> "idle", task |-> NoTask, fields |-> <<>>, found |-> 0, outcome |-> Null]

\* The SELECT of upsert_answer / upsert_observation, run in worker w's session
\* for task t with the mapping f; the commit follows in a later step.
Select(w, t, f) ==
    workers' = [workers EXCEPT ![w] =
        [pc |-> "commit", task |-> t, fields |-> f,
         found |-> IF t.kind = "answer"
                   THEN FindAnswer(answers, t.experiment_id, t.num_line)
                   ELSE FindObservation(observations, t.result_id, t.num_line),
         outcome |-> Null]]

\* The commit of the upsert of worker w; next is the worker's position when
\* the upsert returns.  When it raises, the exception reaches the except
\* clause of worker_routine, which logs it and goes back to recv_json.
Commit(w, next) ==
    LET t == workers[w].task
        f == workers[w].fields
        c == IF t.kind = "answer"
             THEN CommitAnswer(answers, experiments, t.experiment_id, t.num_line,
                               f, workers[w].found)
             ELSE CommitObservation(observations, results, t.result_id, t.num_line,
                                    f, workers[w].found)
    IN  /\ workers[w].pc = "commit"
        /\ IF t.kind = "answer"
           THEN answers' = c.rows /\ UNCHANGED observations
           ELSE observations' = c.rows /\ UNCHANGED answers
        /\ workers' = [workers EXCEPT ![w].pc = IF c.outcome = "returned" THEN next
                                                 ELSE "idle",
                                      ![w].outcome = c.outcome]

\* ------------------------------------------------------------------------
\* The store under concurrent upserts: sessions call upsert_answer and
\* upsert_observation with any key and any mapping.
\* ------------------------------------------------------------------------
\* An experiment as the Experiment table holds it
ExperimentRow(name, status, dataset, model, set_id) ==
    [name |-> name, experiment_status |-> status, num_try |-> 0, num_success |-> 0,
     dataset |-> dataset, model |-> model, experiment_set_id |-> set_id]

\* A Result as ResultCreate.to_table_init makes it
ResultRow(e, m) ==
    [experiment_id |-> e, metric_name |-> m, metric_status |-> "pending",
     num_try |-> 0, num_success |-> 0]

InitUpsert ==
    /\ experiments = [e \in ExpIds |-> ExperimentRow(PlainName, "pending", "dq", TRUE, 0)]
    /\ results = [r \in ExpIds |-> ResultRow(r, "nb_tokens_completion")]
    /\ answers = {}
    /\ observations = {}
    /\ expsets = {}
    /\ queue = EmptyBag
    /\ workers = [w \in Workers |-> IdleWorker]
    /\ handlers = [h \in Handlers |-> [op |-> "idle"]]
    /\ nreq = 0
    /\ last_commit = 0
    /\ datasets = StoreDatasets(<<>>, EngineDatasets)

\* a session enters upsert_answer(db, e, n, f) and runs its query
UpsertAnswerSelect(w, e, n, f) ==
    /\ workers[w].pc = "idle"
    /\ nreq < MaxUpserts
    /\ nreq' = nreq + 1
    /\ Select(w, Task("answer", e, n, 0, Null), f)
    /\ UNCHANGED <<experiments, results, answers, observations, expsets, queue,
                   handlers, last_commit, datasets>>

\* a session enters upsert_observation(db, r, n, f) and runs its query
UpsertObservationSelect(w, r, n, f) ==
    /\ workers[w].pc = "idle"
    /\ nreq < MaxUpserts
    /\ nreq' = nreq + 1
    /\ Select(w, Task("observation", results[r].experiment_id, n, r,
                      results[r].metric_name), f)
    /\ UNCHANGED <<experiments, results, answers, observations, expsets, queue,
                   handlers, last_commit, datasets>>

\* the session commits and the call returns or raises
UpsertCommit(w) ==
    /\ Commit(w, "idle")
    /\ last_commit' = IF workers'[w].outcome = "returned" THEN w ELSE last_commit
    /\ UNCHANGED <<experiments, results, expsets, queue, handlers, nreq, datasets>>

NextUpsert ==
    \/ \E w \in Workers, e \in ExpIds, n \in Lines, f \in Mappings(AnswerFields) :
          UpsertAnswerSelect(w, e, n, f)
    \/ \E w \in Workers, r \in ExpIds, n \in Lines, f \in Mappings(ObservationFields) :
          UpsertObservationSelect(w, r, n, f)
    \/ \E w \in Workers : UpsertCommit(w)

SpecUpsert == InitUpsert /\ [][NextUpsert]_vars

\* ------------------------------------------------------------------------
\* Store operations on experiments and results
\* ------------------------------------------------------------------------
ResultsOf(ress, e) == {r \in DOMAIN ress : ress[r].experiment_id = e}

\* the rows of the experiment's dataset
LinesOf(exps, e) == 0..(Datasets[exps[e].dataset].size - 1)

\* primary key handed out for a new Experiment or Result
NewKey(table) == IF DOMAIN table = {} THEN 1 ELSE Max(DOMAIN table) + 1

\* _needs_output(db_exp)
NeedsOutput(exps, ress, e) ==
    /\ ~Datasets[exps[e].dataset].has_output
    /\ \E r \in ResultsOf(ress, e) : "output" \in MetricRequire[ress[r].metric_name]

\* a bug: the counters the update leaves at None are set back to 0
SetResetsCounters(row, upd) ==
    [k \in DOMAIN row |->
        IF k \in DOMAIN upd THEN upd[k]
        ELSE IF k \in {"num_try", "num_success"} THEN 0 ELSE row[k]]

\* setattr(row, key, value) if value is not None: upd holds the fields of the
\* update whose value is not None
SetNotNone(row, upd) ==
    [k \in DOMAIN row |-> IF k \in DOMAIN upd THEN upd[k] ELSE row[k]]

\* a bug: the Results are left as they are when the status is set to finished
FinishedKeepsResults(ress, e, upd) == ress

\* update_experiment, lines 208-211: if experiment_status is set to finished,
\* the status of every Result of the experiment is set to finished too
FinishedCascade(ress, e, upd) ==
    IF "experiment_status" \in DOMAIN upd /\ upd.experiment_status = "finished"
    THEN [r \in DOMAIN ress |->
            IF ress[r].experiment_id = e
            THEN [ress[r] EXCEPT !.metric_status = "finished"]
            ELSE ress[r]]
    ELSE ress

\* crud.update_experiment(db, experiment_id, experiment_update); found is
\* FALSE when it returns None
update_experiment(exps, ress, e, upd) ==
    IF e \notin DOMAIN exps
    THEN [experiments |-> exps, results |-> ress, found |-> FALSE]
    ELSE [experiments |-> [exps EXCEPT ![e] = SetNotNone(@, upd)],
          results |-> FinishedCascade(ress, e, upd),
          found |-> TRUE]

\* crud.update_result(db, result_id, result_update)
update_result(ress, r, upd) ==
    IF r \notin DOMAIN ress THEN ress
    ELSE [ress EXCEPT ![r] = SetNotNone(@, upd)]

\* crud.get_result(db, experiment_id=..., metric_name=...): 0 stands for None
get_result(ress, e, m) ==
    LET found == {r \in ResultsOf(ress, e) : ress[r].metric_name = m}
    IN  IF found = {} THEN 0 ELSE Min(found)

\* crud.create_result(db, ResultCreate(experiment_id=e, metric_name=m))
create_result(ress, e, m) ==
    [r \in DOMAIN ress \cup {NewKey(ress)} |->
        IF r \in DOMAIN ress THEN ress[r] ELSE ResultRow(e, m)]

\* a Result table without a unique constraint
ResultUniqueNone(ress, e, m) == TRUE

\* Unique constraint of the Result table on (experiment_id, metric_name):
\* TRUE when a Result of experiment e for metric m may be inserted
ResultUnique(ress, e, m) ==
    \A r \in DOMAIN ress :
        ~(ress[r].experiment_id = e /\ ress[r].metric_name = m)

\* the Results of experiment e for the metrics of the list may be inserted
\* one after the other
RECURSIVE ResultsUnique(_, _, _)
ResultsUnique(ress, e, metrics) ==
    IF metrics = <<>> THEN TRUE
    ELSE /\ ResultUnique(ress, e, Head(metrics))
         /\ ResultsUnique(create_result(ress, e, Head(metrics)), e, Tail(metrics))

\* a bug: a model next to a dataset that has an output column is let through
ValidExperimentAmbiguous(dataset, metrics, model) ==
    LET ms == {metrics[i] : i \in DOMAIN metrics}
        needs_query == \E m \in ms : "query" \in MetricRequire[m]
        needs_output == \E m \in ms : "output" \in MetricRequire[m]
        needs_output_true == \E m \in ms : "output_true" \in MetricRequire[m]
        d == Datasets[dataset]
    IN  /\ ~(needs_query /\ ~d.has_query)
        /\ ~(needs_output /\ ~model /\ ~d.has_output)
        /\ ~(needs_output /\ ~d.has_output /\ ~d.has_query)
        /\ ~(needs_output_true /\ ~d.has_output_true)

\* ExperimentCreate.to_table_init, the checks of metrics against the dataset
\* and the model: TRUE when no SchemaError is raised
ValidExperiment(dataset, metrics, model) ==
    LET ms == {metrics[i] : i \in DOMAIN metrics}
        needs_query == \E m \in ms : "query" \in MetricRequire[m]
        needs_output == \E m \in ms : "output" \in MetricRequire[m]
        needs_output_true == \E m \in ms : "output_true" \in MetricRequire[m]
        d == Datasets[dataset]
    IN  /\ ~(needs_query /\ ~d.has_query)
        /\ ~(needs_output /\ ~model /\ ~d.has_output)
        /\ ~(needs_output /\ ~d.has_output /\ ~d.has_query)
        /\ ~(needs_output_true /\ ~d.has_output_true)
        /\ ~(d.has_output /\ model)

\* ------------------------------------------------------------------------
\* Dispatcher (api.runners.dispatch_tasks, dispatch_retries), after sections
\* 4.4 and 4.7 of the specification
\* ------------------------------------------------------------------------
SuccessfulAnswer(rows, e, n) ==
    \E a \in rows : a.experiment_id = e /\ a.num_line = n /\ a.error_msg = Null

SuccessfulObservation(rows, r, n) ==
    \E o \in rows : o.result_id = r /\ o.num_line = n /\ o.error_msg = Null

\* a bug: an answer task for every row of the dataset, whatever the row holds
AnswerTasksAll(exps, rows, e) ==
    {Task("answer", e, n, 0, Null) : n \in LinesOf(exps, e)}

\* one answer task per row of the dataset that has no successful Answer
AnswerTasks(exps, rows, e) ==
    {Task("answer", e, n, 0, Null) :
        n \in {l \in LinesOf(exps, e) : ~SuccessfulAnswer(rows, e, l)}}

\* one observation task per row that has no successful Observation of Result r
ObservationTasks(exps, ress, rows, r) ==
    {Task("observation", ress[r].experiment_id, n, r, ress[r].metric_name) :
        n \in {l \in LinesOf(exps, ress[r].experiment_id) :
                  ~SuccessfulObservation(rows, r, l)}}

\* a bug: the answer tasks are pushed twice
DispatchAnswersTwice(exps, ress, q, e) ==
    [experiments |->
        update_experiment(exps, ress, e,
            [experiment_status |-> "running_answers", num_try |-> 0,
             num_success |-> 0]).experiments,
     results |-> ress,
     queue |-> q (+) SetToBag(AnswerTasks(exps, answers, e))
                 (+) SetToBag(AnswerTasks(exps, answers, e))]

\* dispatch(experiment, phase=answers): the experiment goes to running_answers,
\* its counters are reset (fresh start) and the answer tasks are enqueued
DispatchAnswers(exps, ress, q, e) ==
    [experiments |->
        update_experiment(exps, ress, e,
            [experiment_status |-> "running_answers", num_try |-> 0,
             num_success |-> 0]).experiments,
     results |-> ress,
     queue |-> q (+) SetToBag(AnswerTasks(exps, answers, e))]

\* dispatch(experiment, phase=observations): the experiment goes to
\* running_metrics, every pending Result goes to running and its observation
\* tasks are enqueued
DispatchObservations(exps, ress, q, e) ==
    LET pending == {r \in ResultsOf(ress, e) : ress[r].metric_status = "pending"}
    IN  [experiments |->
            update_experiment(exps, ress, e,
                [experiment_status |-> "running_metrics"]).experiments,
         results |-> [r \in DOMAIN ress |->
                        IF r \in pending
                        THEN [ress[r] EXCEPT !.metric_status = "running"]
                        ELSE ress[r]],
         queue |-> q (+) SetToBag(UNION {ObservationTasks(exps, ress, observations, r) :
                                           r \in pending})]

\* a bug: a new experiment always starts with the answers phase
DispatchCreatedAnswers(exps, ress, q, e) ==
    DispatchAnswers(exps, ress, q, e)

\* dispatch_tasks(db, db_exp, "answers" | "observations") as the handlers that
\* create an experiment call it
DispatchCreated(exps, ress, q, e) ==
    IF NeedsOutput(exps, ress, e)
    THEN DispatchAnswers(exps, ress, q, e)
    ELSE DispatchObservations(exps, ress, q, e)

\* dispatch_retries(db, rr): the experiments of rr go back to running_answers,
\* the Results of rr to running (their experiment to running_metrics); the
\* counters are kept and only the rows without a successful outcome are
\* enqueued again
DispatchRetries(exps, ress, q, eids, rids) ==
    LET es == eids \cap DOMAIN exps
        rs == rids \cap DOMAIN ress
        owners == {ress[r].experiment_id : r \in rs}
    IN  [experiments |->
            [e \in DOMAIN exps |->
                IF e \in es THEN [exps[e] EXCEPT !.experiment_status = "running_answers"]
                ELSE IF e \in owners
                     THEN [exps[e] EXCEPT !.experiment_status = "running_metrics"]
                     ELSE exps[e]],
         results |-> [r \in DOMAIN ress |->
                        IF r \in rs THEN [ress[r] EXCEPT !.metric_status = "running"]
                        ELSE ress[r]],
         queue |-> q (+) SetToBag(UNION {AnswerTasks(exps, answers, e) : e \in es})
                     (+) SetToBag(UNION {ObservationTasks(exps, ress, observations, r) :
                                           r \in rs})]

\* ------------------------------------------------------------------------
\* The engine: HTTP handlers, dispatcher and workers
\* ------------------------------------------------------------------------
Init ==
    /\ experiments = <<>>
    /\ results = <<>>
    /\ answers = {}
    /\ observations = {}
    /\ expsets = {}
    /\ queue = EmptyBag
    /\ workers = [w \in Workers |-> IdleWorker]
    /\ handlers = [h \in Handlers |-> [op |-> "idle"]]
    /\ nreq = 0
    /\ last_commit = 0
    /\ datasets = StoreDatasets(<<>>, EngineDatasets)

\* the metrics lists and request bodies the handlers are called with
MetricLists ==
    {<<"nb_tokens_completion">>, <<"nb_tokens_prompt">>}

\* the Results of a new experiment, one per entry of its metrics list
WithResults(ress, e, metrics) ==
    LET base == IF DOMAIN ress = {} THEN 0 ELSE Max(DOMAIN ress)
    IN  [r \in DOMAIN ress \cup {base + i : i \in DOMAIN metrics} |->
            IF r \in DOMAIN ress THEN ress[r] ELSE ResultRow(e, metrics[r - base])]

\* POST /experiment_set without experiments and without cv: an empty set
CreateExperimentSet(s) ==
    /\ s \notin expsets
    /\ expsets' = expsets \cup {s}
    /\ UNCHANGED <<experiments, results, answers, observations, queue, workers,
                   handlers, nreq, last_commit, datasets>>

\* Unique constraint of the Experiment table on (name, experiment_set_id):
\* TRUE when an experiment of this name may be inserted in set set_id.  An
\* experiment outside any set has a null experiment_set_id, and nulls are
\* distinct to a unique constraint.
NameUnique(exps, name, set_id) ==
    \/ set_id = 0
    \/ \A x \in DOMAIN exps :
          ~(exps[x].experiment_set_id = set_id /\ exps[x].name = name)

\* crud.create_experiment with the table init of a valid ExperimentCreate:
\* the Experiment is added in status pending with one Result per metric
create_experiment(exps, ress, name, dataset, metrics, model, set_id) ==
    LET e == NewKey(exps)
    IN  [id |-> e,
         experiments |-> [x \in DOMAIN exps \cup {e} |->
                            IF x = e
                            THEN ExperimentRow(name, "pending", dataset, model, set_id)
                            ELSE exps[x]],
         results |-> WithResults(ress, e, metrics)]

\* POST /experiment: crud.create_experiment, then dispatch_tasks; the
\* experiments of the store have their keys in ids
CreateExperimentWithin(dataset, metrics, model, set_id, ids) ==
    LET c == create_experiment(experiments, results, PlainName, dataset, metrics,
                               model, set_id)
        e == c.id
        d == DispatchCreated(c.experiments, c.results, queue, e)
    IN  /\ e \in ids
        /\ set_id = 0 \/ set_id \in expsets
        /\ NameUnique(experiments, PlainName, set_id)
        /\ dataset \in DOMAIN datasets
        /\ ValidExperiment(dataset, metrics, model)
        /\ experiments' = d.experiments
        /\ results' = d.results
        /\ queue' = d.queue
        /\ UNCHANGED <<answers, observations, expsets, workers, handlers, nreq,
                       last_commit, datasets>>

\* POST /experiment
CreateExperiment(dataset, metrics, model, set_id) ==
    CreateExperimentWithin(dataset, metrics, model, set_id, ExpIds)

\* The request bodies of PATCH /experiment/{id}: update holds the fields of
\* ExperimentUpdate given in the body (at most one of them here)
PatchUpdates ==
    {<<>>}
    \cup {[k \in {"experiment_status"} |-> st] : st \in {"pending", "finished"}}
    \cup {[k \in {"num_success"} |-> c] : c \in {1}}

Patches ==
    [update : PatchUpdates,
     metrics : {<<>>, <<"nb_tokens_completion">>},
     rerun_answers : BOOLEAN]

\* patch_experiment, lines 119-129: crud.update_experiment with the body,
\* then 404 if the experiment does not exist and 400 unless its status is
\* pending or finished; the request is one of the first max
PatchUpdateWithin(h, e, patch, max) ==
    LET u == update_experiment(experiments, results, e, patch.update)
    IN  /\ handlers[h].op = "idle"
        /\ nreq < max
        /\ nreq' = nreq + 1
        /\ experiments' = u.experiments
        /\ results' = u.results
        /\ handlers' = [handlers EXCEPT ![h] =
              IF u.found /\ u.experiments[e].experiment_status \in {"pending", "finished"}
              THEN [op |-> "patch", pc |-> "results", id |-> e, patch |-> patch]
              ELSE [op |-> "idle"]]
        /\ UNCHANGED <<answers, observations, expsets, queue, workers, last_commit, datasets>>

PatchUpdate(h, e, patch) == PatchUpdateWithin(h, e, patch, MaxRequests)

\* a bug: a Result that exists is left in the status it has
PatchMetricKeepsStatus(ress, e, m) ==
    IF get_result(ress, e, m) # 0 THEN ress ELSE create_result(ress, e, m)

\* one round of the loop of lines 134-140 for metric m
PatchMetric(ress, e, m) ==
    IF get_result(ress, e, m) # 0
    THEN update_result(ress, get_result(ress, e, m), [metric_status |-> "pending"])
    ELSE create_result(ress, e, m)

RECURSIVE PatchMetrics(_, _, _)
PatchMetrics(ress, e, metrics) ==
    IF metrics = <<>> THEN ress
    ELSE PatchMetrics(PatchMetric(ress, e, Head(metrics)), e, Tail(metrics))

\* patch_experiment, lines 134-140: the Results of the metrics of the body
\* are reset to pending or created
PatchResults(h) ==
    /\ handlers[h].op = "patch" /\ handlers[h].pc = "results"
    /\ results' = IF handlers[h].id \in DOMAIN experiments
                  THEN PatchMetrics(results, handlers[h].id, handlers[h].patch.metrics)
                  ELSE results
    /\ handlers' = [handlers EXCEPT ![h].pc = "dispatch"]
    /\ UNCHANGED <<experiments, answers, observations, expsets, queue, workers, nreq,
                   last_commit, datasets>>

\* patch_experiment, lines 142-145: the answers are dispatched again when
\* rerun_answers is set and the experiment needs output; otherwise the
\* handler reads experiment_patch.rerun_metrics, which ExperimentPatch does
\* not declare: AttributeError, nothing is dispatched
PatchDispatch(h) ==
    LET e == handlers[h].id
        rerun == /\ e \in DOMAIN experiments
                 /\ handlers[h].patch.rerun_answers
                 /\ NeedsOutput(experiments, results, e)
        d == DispatchAnswers(experiments, results, queue, e)
    IN  /\ handlers[h].op = "patch" /\ handlers[h].pc = "dispatch"
        /\ experiments' = IF rerun THEN d.experiments ELSE experiments
        /\ queue' = IF rerun THEN d.queue ELSE queue
        /\ handlers' = [handlers EXCEPT ![h] = [op |-> "idle"]]
        /\ UNCHANGED <<results, answers, observations, expsets, workers, nreq,
                       last_commit, datasets>>

\* a bug: the counters are compared the wrong way round
RetryExperimentsSucceeded(exps, ress, s) ==
    {e \in DOMAIN exps :
        /\ exps[e].experiment_set_id = s
        /\ exps[e].experiment_status = "finished"
        /\ exps[e].num_try = exps[e].num_success
        /\ NeedsOutput(exps, ress, e)}

\* a bug: the status of the experiment is not looked at
RetryExperimentsAnyStatus(exps, ress, s) ==
    {e \in DOMAIN exps :
        /\ exps[e].experiment_set_id = s
        /\ exps[e].num_try # exps[e].num_success
        /\ NeedsOutput(exps, ress, e)}

\* retry_runs, lines 314-328: the experiments whose answers are redone
RetryExperiments(exps, ress, s) ==
    {e \in DOMAIN exps :
        /\ exps[e].experiment_set_id = s
        /\ exps[e].experiment_status = "finished"
        /\ exps[e].num_try # exps[e].num_success
        /\ NeedsOutput(exps, ress, e)}

\* a bug: the continue of line 321 is missing, the Results of an experiment
\* whose answers are redone are looked at too
RetryResultsNoContinue(exps, ress, s) ==
    {r \in DOMAIN ress :
        LET e == ress[r].experiment_id
        IN  /\ exps[e].experiment_set_id = s
            /\ exps[e].experiment_status = "finished"
            /\ ress[r].metric_status = "finished"
            /\ ress[r].num_try # ress[r].num_success}

\* retry_runs, lines 314-328: the Results whose observations are redone
RetryResults(exps, ress, s) ==
    {r \in DOMAIN ress :
        LET e == ress[r].experiment_id
        IN  /\ exps[e].experiment_set_id = s
            /\ exps[e].experiment_status = "finished"
            /\ e \notin RetryExperiments(exps, ress, s)
            /\ ress[r].metric_status = "finished"
            /\ ress[r].num_try # ress[r].num_success}

\* POST /retry/experiment_set/{id}, lines 310-328: the handler reads the set
\* and fills rr
RetryPlan(h, s) ==
    /\ handlers[h].op = "idle"
    /\ nreq < MaxRequests
    /\ nreq' = nreq + 1
    /\ s \in expsets
    /\ handlers' = [handlers EXCEPT ![h] =
          [op |-> "retry", id |-> s,
           experiment_ids |-> RetryExperiments(experiments, results, s),
           result_ids |-> RetryResults(experiments, results, s)]]
    /\ UNCHANGED <<experiments, results, answers, observations, expsets, queue,
                   workers, last_commit, datasets>>

\* POST /retry/experiment_set/{id}, line 330: dispatch_retries(db, rr)
RetryDispatch(h) ==
    LET d == DispatchRetries(experiments, results, queue,
                             handlers[h].experiment_ids, handlers[h].result_ids)
    IN  /\ handlers[h].op = "retry"
        /\ experiments' = d.experiments
        /\ results' = d.results
        /\ queue' = d.queue
        /\ handlers' = [handlers EXCEPT ![h] = [op |-> "idle"]]
        /\ UNCHANGED <<answers, observations, expsets, workers, nreq, last_commit, datasets>>

\* what the call of the model or of the metric made of a task: the mapping
\* the worker upserts, with error_msg null on success
Outcomes(kind) ==
    IF kind = "answer"
    THEN {[answer |-> "a1", error_msg |-> Null], [answer |-> Null, error_msg |-> "err"]}
    ELSE {[score |-> "s1", error_msg |-> Null], [score |-> Null, error_msg |-> "err"]}

\* a bug: the envelope is given to the worker and left in the queue
WorkerRecvKeeps(w, t) ==
    /\ workers[w].pc = "idle"
    /\ BagIn(t, queue)
    /\ \E f \in Outcomes(t.kind) : Select(w, t, f)
    /\ UNCHANGED <<experiments, results, answers, observations, expsets, handlers,
                   nreq, last_commit, datasets, queue>>

\* worker_routine, lines 24-27: a worker pulls an envelope and process_task
\* runs it up to the query of its upsert
WorkerRecv(w, t) ==
    /\ workers[w].pc = "idle"
    /\ BagIn(t, queue)
    /\ queue' = queue (-) SetToBag({t})
    /\ \E f \in Outcomes(t.kind) : Select(w, t, f)
    /\ UNCHANGED <<experiments, results, answers, observations, expsets, handlers,
                   nreq, last_commit, datasets>>

\* a bug: the worker goes back to recv_json right after the upsert, the
\* counters of the owner are not touched
WorkerCommitDrops(w) ==
    /\ Commit(w, "idle")
    /\ UNCHANGED <<experiments, results, expsets, queue, handlers, nreq, last_commit, datasets>>

\* the commit of the worker's upsert
WorkerCommit(w) ==
    /\ Commit(w, "count")
    /\ UNCHANGED <<experiments, results, expsets, queue, handlers, nreq, last_commit, datasets>>

\* running_metrics -> finished when every Result has num_try = dataset.size
FinishIfComplete(exps, ress, e) ==
    IF /\ exps[e].experiment_status = "running_metrics"
       /\ \A r \in ResultsOf(ress, e) : ress[r].num_try = Datasets[exps[e].dataset].size
    THEN update_experiment(exps, ress, e, [experiment_status |-> "finished"])
    ELSE [experiments |-> exps, results |-> ress, found |-> TRUE]

\* a bug: the counters are read, incremented in memory and written back; the
\* write of a worker is lost when another worker counts a task of the same
\* experiment at the same time
CountAnswerLostUpdate(w) ==
    LET e == workers[w].task.experiment_id
        ok == workers[w].fields.error_msg = Null
        raced == \E w2 \in Workers \ {w} :
                    /\ workers[w2].pc = "count" /\ workers[w2].task.kind = "answer"
                    /\ workers[w2].task.experiment_id = e
        exps1 == IF raced THEN experiments
                 ELSE [experiments EXCEPT ![e].num_try = @ + 1,
                                          ![e].num_success = IF ok THEN @ + 1 ELSE @]
        reached == /\ exps1[e].num_try = Datasets[exps1[e].dataset].size
                   /\ exps1[e].experiment_status = "running_answers"
        d == DispatchObservations(exps1, results, queue, e)
    IN  /\ workers[w].pc = "count" /\ workers[w].task.kind = "answer"
        /\ workers' = [workers EXCEPT ![w] = IdleWorker]
        /\ IF e \notin DOMAIN experiments
           THEN UNCHANGED <<experiments, results, queue>>
           ELSE /\ experiments' = IF reached THEN d.experiments ELSE exps1
                /\ results' = IF reached THEN d.results ELSE results
                /\ queue' = IF reached THEN d.queue ELSE queue
        /\ UNCHANGED <<answers, observations, expsets, handlers, nreq, last_commit, datasets>>

\* After the upsert of an answer task: num_try, and num_success when
\* error_msg is null, are incremented in one statement; when num_try reaches
\* dataset.size the observations phase is dispatched.
CountAnswer(w) ==
    LET e == workers[w].task.experiment_id
        ok == workers[w].fields.error_msg = Null
        exps1 == [experiments EXCEPT ![e].num_try = @ + 1,
                                     ![e].num_success = IF ok THEN @ + 1 ELSE @]
        reached == /\ exps1[e].num_try = Datasets[exps1[e].dataset].size
                   /\ exps1[e].experiment_status = "running_answers"
        d == DispatchObservations(exps1, results, queue, e)
    IN  /\ workers[w].pc = "count" /\ workers[w].task.kind = "answer"
        /\ workers' = [workers EXCEPT ![w] = IdleWorker]
        /\ IF e \notin DOMAIN experiments
           THEN UNCHANGED <<experiments, results, queue>>
           ELSE /\ experiments' = IF reached THEN d.experiments ELSE exps1
                /\ results' = IF reached THEN d.results ELSE results
                /\ queue' = IF reached THEN d.queue ELSE queue
        /\ UNCHANGED <<answers, observations, expsets, handlers, nreq, last_commit, datasets>>

\* After the upsert of an observation task: the counters of the Result are
\* incremented; when num_try reaches dataset.size the experiment is finished
\* if every Result of it is complete.
CountObservation(w) ==
    LET r == workers[w].task.result_id
        ok == workers[w].fields.error_msg = Null
        ress1 == [results EXCEPT ![r].num_try = @ + 1,
                                 ![r].num_success = IF ok THEN @ + 1 ELSE @]
        e == ress1[r].experiment_id
        u == FinishIfComplete(experiments, ress1, e)
    IN  /\ workers[w].pc = "count" /\ workers[w].task.kind = "observation"
        /\ workers' = [workers EXCEPT ![w] = IdleWorker]
        /\ IF r \notin DOMAIN results
           THEN UNCHANGED <<experiments, results>>
           ELSE /\ experiments' = u.experiments
                /\ results' = u.results
        /\ UNCHANGED <<answers, observations, expsets, queue, handlers, nreq,
                       last_commit, datasets>>

Next ==
    \/ \E s \in SetIds : CreateExperimentSet(s)
    \/ \E d \in EngineDatasets, ms \in MetricLists, model \in BOOLEAN,
          s \in {0} \cup SetIds : CreateExperiment(d, ms, model, s)
    \/ \E h \in Handlers, e \in ExpIds, patch \in Patches : PatchUpdate(h, e, patch)
    \/ \E h \in Handlers : PatchResults(h)
    \/ \E h \in Handlers : PatchDispatch(h)
    \/ \E h \in Handlers, s \in SetIds : RetryPlan(h, s)
    \/ \E h \in Handlers : RetryDispatch(h)
    \/ \E w \in Workers, t \in BagToSet(queue) : WorkerRecv(w, t)
    \/ \E w \in Workers : WorkerCommit(w)
    \/ \E w \in Workers : CountAnswer(w)
    \/ \E w \in Workers : CountObservation(w)

Spec == Init /\ [][Next]_vars

\* ------------------------------------------------------------------------
\* The requests that create datasets, experiments and experiment sets, with
\* the response each gets: 200, 400 (SchemaError) or 409 (IntegrityError).
\* ------------------------------------------------------------------------
\* the dataframes a client may send: those of Datasets and one with an
\* output_true column only
Dataframes == DatasetNames \cup {"dt"}

PostMetricLists ==
    {<<>>, <<"nb_tokens_prompt">>, <<"nb_tokens_completion">>, <<"judge_exactness">>,
     <<"nb_tokens_prompt", "judge_exactness">>}

\* ExperimentCreate: the dataset is a name (inline FALSE) or a DatasetCreate
\* (inline TRUE); model tells whether a ModelCreate is given
ExperimentBodies ==
    [name : {PlainName}, dataset : Dataframes, inline : BOOLEAN,
     metrics : PostMetricLists, model : BOOLEAN, set_id : {0} \cup SetIds]

\* the record a handler leaves when its request is answered
Answered(seq, kind, body, response) ==
    [op |-> "idle", seq |-> seq, request |-> [kind |-> kind, body |-> body],
     response |-> response]

\* DatasetCreate.to_table_init: SchemaError unless the dataframe has a query
\* or an output column
DatasetSchemaError(name) == name \notin DatasetNames

\* POST /dataset: crud.create_dataset; the name of a dataset is unique
PostDataset(h, name) ==
    LET response == IF DatasetSchemaError(name) THEN 400
                    ELSE IF name \in StoredNames(datasets) THEN 409 ELSE 200
    IN  /\ handlers[h].op = "idle"
        /\ nreq < MaxPosts
        /\ name \in DOMAIN datasets => name \in StoredNames(datasets)
        /\ nreq' = nreq + 1
        /\ datasets' = IF response = 200 THEN StoreDatasets(datasets, {name})
                                         ELSE datasets
        /\ handlers' = [handlers EXCEPT ![h] =
              Answered(nreq + 1, "post_dataset", name, response)]
        /\ UNCHANGED <<experiments, results, answers, observations, expsets, queue,
                       workers, last_commit>>

\* ExperimentCreate.to_table_init: TRUE when it raises SchemaError, for the
\* dataframe of an inline dataset, for a dataset name that is not found or
\* for metrics that do not go with the dataset and the model
ExperimentSchemaError(dsets, b) ==
    IF b.inline
    THEN DatasetSchemaError(b.dataset) \/ ~ValidExperiment(b.dataset, b.metrics, b.model)
    ELSE b.dataset \notin dsets \/ ~ValidExperiment(b.dataset, b.metrics, b.model)

\* the commit of a new experiment is refused: the name of its inline dataset
\* is taken, its experiment set does not exist, its name is taken in its
\* experiment set, or two of its Results are for the same metric
ExperimentIntegrityError(dsets, sets, exps, b) ==
    \/ b.inline /\ b.dataset \in dsets
    \/ b.set_id # 0 /\ b.set_id \notin sets
    \/ ~NameUnique(exps, b.name, b.set_id)
    \/ ~ResultsUnique(<<>>, 0, b.metrics)

\* a bug: the inline dataset is committed before the experiment is checked
post_experiment_dataset_first(dsets, sets, exps, ress, q, b) ==
    [response |-> IF ExperimentSchemaError(dsets, b) THEN 400 ELSE 200,
     datasets |-> IF b.inline /\ ~DatasetSchemaError(b.dataset)
                  THEN dsets \cup {b.dataset} ELSE dsets,
     experiments |-> exps, results |-> ress, queue |-> q]

\* create_experiment of api/endpoints.py: the response and the store after it
post_experiment(dsets, sets, exps, ress, q, b) ==
    LET c == create_experiment(exps, ress, b.name, b.dataset, b.metrics, b.model,
                               b.set_id)
        d == DispatchCreated(c.experiments, c.results, q, c.id)
        refused == [response |-> 400, datasets |-> dsets, experiments |-> exps,
                    results |-> ress, queue |-> q]
    IN  IF ExperimentSchemaError(dsets, b) THEN refused
        ELSE IF ExperimentIntegrityError(dsets, sets, exps, b)
             THEN [refused EXCEPT !.response = 409]
             ELSE [response |-> 200, datasets |-> dsets \cup {b.dataset},
                   experiments |-> d.experiments, results |-> d.results,
                   queue |-> d.queue]

\* POST /experiment, the request being one of the first max and the
\* experiments of the store having their keys in ids
PostExperimentWithin(h, b, ids, max) ==
    LET o == post_experiment(DOMAIN datasets, expsets, experiments, results, queue, b)
    IN  /\ handlers[h].op = "idle"
        /\ nreq < max
        /\ DOMAIN o.experiments \subseteq ids
        /\ nreq' = nreq + 1
        /\ datasets' = StoreDatasets(datasets, o.datasets)
        /\ experiments' = o.experiments
        /\ results' = o.results
        /\ queue' = o.queue
        /\ handlers' = [handlers EXCEPT ![h] =
              Answered(nreq + 1, "post_experiment", b, o.response)]
        /\ UNCHANGED <<answers, observations, expsets, workers, last_commit>>

\* POST /experiment
PostExperiment(h, b) == PostExperimentWithin(h, b, ExpIds, MaxPosts)

\* the experiments a set is made of
SetMember(dataset, metrics, model) ==
    [name |-> PlainName, dataset |-> dataset, inline |-> FALSE, metrics |-> metrics,
     model |-> model, set_id |-> 0]

SetMembers ==
    {SetMember("dq", <<"nb_tokens_completion">>, TRUE),
     SetMember("dqo", <<"nb_tokens_completion">>, FALSE),
     SetMember("dq", <<"judge_exactness">>, TRUE)}

\* ExperimentSetCreate: kind tells which of experiments and cv is given
\* ("none", "list", "grid", "both"); members are the experiments of the list
\* or the points of the grid (what build_param_grid makes of cv.common_params
\* and cv.grid_params), repeat is cv.repeat
ExperimentSetBodies ==
    {[kind |-> "none", members |-> <<>>, repeat |-> 1]}
    \cup [kind : {"list", "grid", "both"},
          members : {<<m>> : m \in SetMembers}
                    \cup {<<m1, [m2 EXCEPT !.name = OtherName]>> :
                             m1 \in SetMembers, m2 \in SetMembers},
          repeat : {1}]

\* a bug: the loops are the other way round, the grid is gone through repeat
\* times
GridExperimentsInterleaved(points, repeat, i) ==
    [j \in 1..(Len(points) * repeat) |->
        [points[((j - 1) % Len(points)) + 1] EXCEPT !.name = Name(SetName, TRUE, i + j - 1)]]

\* ExperimentSetCreate.to_table_init, lines 341-347: each point of the grid,
\* repeat times, under the name {set name}__{i}; i counts the experiments
RECURSIVE GridExperiments(_, _, _)
GridExperiments(points, repeat, i) ==
    IF points = <<>> THEN <<>>
    ELSE [k \in 1..repeat |-> [Head(points) EXCEPT !.name = Name(SetName, TRUE, i + k - 1)]]
         \o GridExperiments(Tail(points), repeat, i + repeat)

\* the experiments of the table init of body
SetExperiments(body) ==
    IF body.kind = "grid" THEN GridExperiments(body.members, body.repeat, 0)
    ELSE body.members

\* ExperimentSetCreate.to_table_init: TRUE when it raises SchemaError.
\* recurse_table_init goes through the experiments of an explicit list with
\* recurse_table_init, which runs the table init of an inline dataset only;
\* the points of a grid go through ExperimentCreate.to_table_init.
ExperimentSetSchemaError(dsets, body) ==
    \/ /\ body.kind \in {"list", "both"}
       /\ \E i \in DOMAIN body.members :
             body.members[i].inline /\ DatasetSchemaError(body.members[i].dataset)
    \/ body.kind = "both"
    \/ /\ body.kind = "grid"
       /\ \E i \in DOMAIN SetExperiments(body) :
             ExperimentSchemaError(dsets, SetExperiments(body)[i])

\* the commit of a new set is refused: an inline dataset has a name that is
\* taken, a member names a dataset that does not exist, two experiments
\* of the set have the same name, or two Results of a member are for the
\* same metric
ExperimentSetIntegrityError(dsets, body) ==
    LET members == SetExperiments(body)
    IN  \/ \E i \in DOMAIN members :
              IF members[i].inline
              THEN members[i].dataset \in dsets
              ELSE members[i].dataset \notin dsets
        \/ \E i \in DOMAIN members : ~ResultsUnique(<<>>, 0, members[i].metrics)
        \/ \E i \in DOMAIN members, j \in DOMAIN members :
              /\ i # j
              /\ \/ /\ members[i].inline /\ members[j].inline
                    /\ members[i].dataset = members[j].dataset
                 \/ members[i].name = members[j].name

\* the experiments of a new set s are added, in the order of the body
RECURSIVE AddMembers(_, _, _, _)
AddMembers(exps, ress, members, s) ==
    IF members = <<>>
    THEN [experiments |-> exps, results |-> ress, ids |-> <<>>]
    ELSE LET m == Head(members)
             c == create_experiment(exps, ress, m.name, m.dataset, m.metrics, m.model, s)
             rest == AddMembers(c.experiments, c.results, Tail(members), s)
         IN  [rest EXCEPT !.ids = <<c.id>> \o @]

\* a bug: only the first experiment of the set is dispatched
DispatchMembersFirst(exps, ress, q, ids) ==
    IF ids = <<>>
    THEN [experiments |-> exps, results |-> ress, queue |-> q]
    ELSE DispatchCreated(exps, ress, q, Head(ids))

\* create_experimentset of api/endpoints.py, lines 220-224: each experiment
\* of the set is dispatched
RECURSIVE DispatchMembers(_, _, _, _)
DispatchMembers(exps, ress, q, ids) ==
    IF ids = <<>>
    THEN [experiments |-> exps, results |-> ress, queue |-> q]
    ELSE LET d == DispatchCreated(exps, ress, q, Head(ids))
         IN  DispatchMembers(d.experiments, d.results, d.queue, Tail(ids))

\* primary key handed out for a new ExperimentSet
NewSetKey(sets) == IF sets = {} THEN 1 ELSE Max(sets) + 1

\* create_experimentset of api/endpoints.py: the response and the store
\* after it
post_experimentset(dsets, sets, exps, ress, q, body) ==
    LET s == NewSetKey(sets)
        a == AddMembers(exps, ress, SetExperiments(body), s)
        d == DispatchMembers(a.experiments, a.results, q, a.ids)
        refused == [response |-> 400, datasets |-> dsets, expsets |-> sets,
                    experiments |-> exps, results |-> ress, queue |-> q]
    IN  IF ExperimentSetSchemaError(dsets, body) THEN refused
        ELSE IF ExperimentSetIntegrityError(dsets, body)
             THEN [refused EXCEPT !.response = 409]
             ELSE [response |-> 200,
                   datasets |-> dsets \cup {body.members[i].dataset :
                                               i \in DOMAIN body.members},
                   expsets |-> sets \cup {s},
                   experiments |-> d.experiments, results |-> d.results,
                   queue |-> d.queue]

\* POST /experiment_set, the request being one of the first max and the
\* experiments of the store having their keys in ids
PostExperimentSetWithin(h, body, ids, max) ==
    LET o == post_experimentset(DOMAIN datasets, expsets, experiments, results, queue, body)
    IN  /\ handlers[h].op = "idle"
        /\ nreq < max
        /\ DOMAIN o.experiments \subseteq ids
        /\ o.expsets \subseteq SetIds
        /\ nreq' = nreq + 1
        /\ datasets' = StoreDatasets(datasets, o.datasets)
        /\ expsets' = o.expsets
        /\ experiments' = o.experiments
        /\ results' = o.results
        /\ queue' = o.queue
        /\ handlers' = [handlers EXCEPT ![h] =
              Answered(nreq + 1, "post_experimentset", body, o.response)]
        /\ UNCHANGED <<answers, observations, workers, last_commit>>

\* POST /experiment_set
PostExperimentSet(h, body) == PostExperimentSetWithin(h, body, ExpIds, MaxPosts)

NextCreate ==
    \/ \E h \in Handlers, name \in Dataframes : PostDataset(h, name)
    \/ \E h \in Handlers, b \in ExperimentBodies : PostExperiment(h, b)
    \/ \E h \in Handlers, body \in ExperimentSetBodies : PostExperimentSet(h, body)

SpecCreate == Init /\ [][NextCreate]_vars

\* ------------------------------------------------------------------------
\* Experiment sets and the names of their experiments: sets are created from
\* a list or a grid, experiments are appended to a set and deleted.
\* ------------------------------------------------------------------------
\* the experiments of set s
SetExps(exps, s) == {x \in DOMAIN exps : exps[x].experiment_set_id = s}

\* deleting a Result deletes its Observations (the Result owns them)
CascadeObservations(obs, rids) == {o \in obs : o.result_id \notin rids}

\* a bug: the Answers of the experiment are left in their table
remove_experiment_keeps_answers(exps, ress, ans, obs, e) ==
    IF e \notin DOMAIN exps
    THEN [found |-> FALSE, experiments |-> exps, results |-> ress, answers |-> ans,
          observations |-> obs]
    ELSE [found |-> TRUE,
          experiments |-> [x \in DOMAIN exps \ {e} |-> exps[x]],
          results |-> [r \in DOMAIN ress \ ResultsOf(ress, e) |-> ress[r]],
          answers |-> ans,
          observations |-> CascadeObservations(obs, ResultsOf(ress, e))]

\* crud.remove_experiment(db, experiment_id): the Results and the Answers of
\* the experiment are deleted, then the experiment; found is what it returns
remove_experiment(exps, ress, ans, obs, e) ==
    IF e \notin DOMAIN exps
    THEN [found |-> FALSE, experiments |-> exps, results |-> ress, answers |-> ans,
          observations |-> obs]
    ELSE [found |-> TRUE,
          experiments |-> [x \in DOMAIN exps \ {e} |-> exps[x]],
          results |-> [r \in DOMAIN ress \ ResultsOf(ress, e) |-> ress[r]],
          answers |-> {a \in ans : a.experiment_id # e},
          observations |-> CascadeObservations(obs, ResultsOf(ress, e))]

\* DELETE /experiment/{id}: "ok", or 404 when remove_experiment returns False
DeleteExperiment(h, e) ==
    LET o == remove_experiment(experiments, results, answers, observations, e)
    IN  /\ handlers[h].op = "idle"
        /\ nreq < MaxCalls
        /\ nreq' = nreq + 1
        /\ experiments' = o.experiments
        /\ results' = o.results
        /\ answers' = o.answers
        /\ observations' = o.observations
        /\ handlers' = [handlers EXCEPT ![h] =
              Answered(nreq + 1, "delete_experiment", e, IF o.found THEN 200 ELSE 404)]
        /\ UNCHANGED <<expsets, queue, workers, last_commit, datasets>>

\* patch_experimentset, lines 253-258: the name under which an experiment of
\* the body is appended to a set that has count experiments
BumpedName(name, count) ==
    IF name.auto
    THEN Name(IF name.stem = "None" THEN SetName ELSE name.stem, TRUE, name.n + count)
    ELSE name

\* patch_experimentset with one experiment m to append to set s: 404 when the
\* set does not exist; the experiment is created under its bumped name and
\* dispatched, unless the store refuses it (500: the handler catches nothing)
patch_experimentset(sets, exps, ress, q, s, m) ==
    LET name == BumpedName(m.name, Cardinality(SetExps(exps, s)))
        c == create_experiment(exps, ress, name, m.dataset, m.metrics, m.model, s)
        d == DispatchCreated(c.experiments, c.results, q, c.id)
        refused == [response |-> 404, experiments |-> exps, results |-> ress,
                    queue |-> q]
    IN  IF s \notin sets THEN refused
        ELSE IF ~NameUnique(exps, name, s) THEN [refused EXCEPT !.response = 500]
             ELSE [response |-> 200, experiments |-> d.experiments,
                   results |-> d.results, queue |-> d.queue]

\* PATCH /experiment_set/{id}
PatchExperimentSet(h, s, m) ==
    LET o == patch_experimentset(expsets, experiments, results, queue, s, m)
    IN  /\ handlers[h].op = "idle"
        /\ nreq < MaxCalls
        /\ m.dataset \in DOMAIN datasets
        /\ DOMAIN o.experiments \subseteq 1..MaxSetExps
        /\ nreq' = nreq + 1
        /\ experiments' = o.experiments
        /\ results' = o.results
        /\ queue' = o.queue
        /\ handlers' = [handlers EXCEPT ![h] =
              Answered(nreq + 1, "patch_experimentset", [id |-> s, experiment |-> m],
                       o.response)]
        /\ UNCHANGED <<answers, observations, expsets, workers, last_commit, datasets>>

\* the experiments the sets are made of and the grids they are made from
NamedMembers ==
    {[m EXCEPT !.name = n] :
        m \in {SetMember("dqo", <<"nb_tokens_completion">>, FALSE)},
        n \in {PlainName, OtherName}}

GridPoints ==
    {SetMember("dq", <<"nb_tokens_completion">>, TRUE),
     SetMember("dqo", <<"nb_tokens_completion">>, FALSE)}

NamedSetBodies ==
    [kind : {"list"}, members : {<<m>> : m \in NamedMembers}, repeat : {1}]
    \cup [kind : {"grid"},
          members : {<<p>> : p \in GridPoints}
                    \cup {<<p1, p2>> : p1 \in GridPoints, p2 \in GridPoints},
          repeat : 1..MaxRepeat]

\* the experiments a client appends to a set
AppendedMembers ==
    {[m EXCEPT !.name = n] :
        m \in {SetMember("dqo", <<"nb_tokens_completion">>, FALSE)},
        n \in {PlainName, Name("None", TRUE, 0), Name(SetName, TRUE, 1)}}

NextNames ==
    \/ \E h \in Handlers, body \in NamedSetBodies :
          PostExperimentSetWithin(h, body, 1..MaxSetExps, MaxCalls)
    \/ \E h \in Handlers, s \in SetIds, m \in AppendedMembers : PatchExperimentSet(h, s, m)
    \/ \E h \in Handlers, e \in 1..MaxSetExps : DeleteExperiment(h, e)

SpecNames == Init /\ [][NextNames]_vars

\* ------------------------------------------------------------------------
\* Deletion while the engine runs: next to an experiment that has run to its
\* end, experiments are created and dispatched, the workers run their tasks,
\* and a client deletes experiments and experiment sets at any moment.  The
\* database never hands out the key of a deleted row again, whereas NewKey
\* is the highest key plus one: here the experiments are created before the
\* first deletion is asked for.
\* ------------------------------------------------------------------------
\* the store once experiment 1 (dataset with a query column, a model, metric
\* nb_tokens_completion) has run to its end, every row with success
RunStore ==
    /\ experiments =
          [e \in {1} |->
              [ExperimentRow(PlainName, "finished", "dq", TRUE, 0)
                  EXCEPT !.num_try = DatasetSize, !.num_success = DatasetSize]]
    /\ results =
          [r \in {1} |->
              [ResultRow(1, "nb_tokens_completion")
                  EXCEPT !.metric_status = "finished", !.num_try = DatasetSize,
                         !.num_success = DatasetSize]]
    /\ answers = {[id |-> n + 1, experiment_id |-> 1, num_line |-> n, answer |-> "a1",
                   error_msg |-> Null] : n \in Lines}
    /\ observations = {[id |-> n + 1, result_id |-> 1, num_line |-> n, score |-> "s1",
                        error_msg |-> Null] : n \in Lines}
    /\ expsets = {}
    /\ queue = EmptyBag
    /\ workers = [w \in Workers |-> IdleWorker]
    /\ nreq = 0
    /\ last_commit = 0
    /\ datasets = StoreDatasets(<<>>, EngineDatasets)

InitDelete ==
    /\ RunStore
    /\ handlers = [h \in Handlers |-> [op |-> "idle"]]

\* the loop of remove_experimentset, lines 287-288, over the experiments es
RECURSIVE RemoveExperiments(_, _, _, _, _)
RemoveExperiments(exps, ress, ans, obs, es) ==
    IF es = {}
    THEN [experiments |-> exps, results |-> ress, answers |-> ans, observations |-> obs]
    ELSE LET e == Min(es)
             o == remove_experiment(exps, ress, ans, obs, e)
         IN  RemoveExperiments(o.experiments, o.results, o.answers, o.observations,
                               es \ {e})

\* a bug: the set is deleted and its experiments are left without a set
remove_experimentset_orphans(sets, exps, ress, ans, obs, s) ==
    IF s \notin sets
    THEN [found |-> FALSE, expsets |-> sets, experiments |-> exps, results |-> ress,
          answers |-> ans, observations |-> obs]
    ELSE [found |-> TRUE, expsets |-> sets \ {s},
          experiments |-> [x \in DOMAIN exps |->
                             IF exps[x].experiment_set_id = s
                             THEN [exps[x] EXCEPT !.experiment_set_id = 0]
                             ELSE exps[x]],
          results |-> ress, answers |-> ans, observations |-> obs]

\* crud.remove_experimentset(db, experimentset_id): remove_experiment for
\* each experiment of the set, then the set is deleted
remove_experimentset(sets, exps, ress, ans, obs, s) ==
    IF s \notin sets
    THEN [found |-> FALSE, expsets |-> sets, experiments |-> exps, results |-> ress,
          answers |-> ans, observations |-> obs]
    ELSE LET o == RemoveExperiments(exps, ress, ans, obs, SetExps(exps, s))
         IN  [found |-> TRUE, expsets |-> sets \ {s}, experiments |-> o.experiments,
              results |-> o.results, answers |-> o.answers,
              observations |-> o.observations]

\* DELETE /experiment_set/{id}: "ok", or 404 when remove_experimentset
\* returns False
DeleteExperimentSet(h, s) ==
    LET o == remove_experimentset(expsets, experiments, results, answers,
                                  observations, s)
    IN  /\ handlers[h].op = "idle"
        /\ nreq < MaxCalls
        /\ nreq' = nreq + 1
        /\ expsets' = o.expsets
        /\ experiments' = o.experiments
        /\ results' = o.results
        /\ answers' = o.answers
        /\ observations' = o.observations
        /\ handlers' = [handlers EXCEPT ![h] =
              Answered(nreq + 1, "delete_experimentset", s, IF o.found THEN 200 ELSE 404)]
        /\ UNCHANGED <<queue, workers, last_commit, datasets>>

NextDelete ==
    \/ \E s \in SetIds : nreq = 0 /\ CreateExperimentSet(s)
    \/ \E d \in EngineDatasets, ms \in MetricLists, model \in BOOLEAN,
          s \in {0} \cup SetIds :
          nreq = 0 /\ CreateExperimentWithin(d, ms, model, s, 1..MaxDeleted)
    \/ \E h \in Handlers, e \in DOMAIN experiments : DeleteExperiment(h, e)
    \/ \E h \in Handlers, s \in SetIds : DeleteExperimentSet(h, s)
    \/ \E w \in Workers, t \in BagToSet(queue) : WorkerRecv(w, t)
    \/ \E w \in Workers : WorkerCommit(w)
    \/ \E w \in Workers : CountAnswer(w)
    \/ \E w \in Workers : CountObservation(w)

SpecDelete == InitDelete /\ [][NextDelete]_vars

\* ------------------------------------------------------------------------
\* Datasets after their creation: crud.update_dataset and crud.remove_dataset
\* next to the creation and the deletion of the experiments that refer to
\* them.
\* ------------------------------------------------------------------------
\* a DatasetPatch that can carry every field of a stored dataset
DatasetPatchesEveryField ==
    {[name |-> "renamed"], [readme |-> "readme"], [df |-> "do"],
     [has_query |-> FALSE, has_output |-> FALSE], [size |-> 0]}

\* what a DatasetPatch can carry: a new name, a readme, or both; a field
\* that is absent is None
DatasetPatches ==
    {[name |-> "renamed"], [readme |-> "readme"],
     [name |-> "renamed", readme |-> "readme"]}

\* crud.update_dataset: every field of the update that is not None is set
\* on the row; None when there is no such dataset.  The name of a dataset
\* is unique: the commit of a name another dataset has raises IntegrityError
\* and changes nothing.
update_dataset(dsets, d, upd) ==
    IF d \notin DOMAIN dsets
    THEN [outcome |-> "None", datasets |-> dsets]
    ELSE LET row == [f \in DOMAIN dsets[d] |->
                        IF f \in DOMAIN upd THEN upd[f] ELSE dsets[d][f]]
         IN  IF row.name \in StoredNames([k \in DOMAIN dsets \ {d} |-> dsets[k]])
             THEN [outcome |-> "IntegrityError", datasets |-> dsets]
             ELSE [outcome |-> "updated", datasets |-> [dsets EXCEPT ![d] = row]]

\* PATCH /dataset/{id}: 404 when update_dataset returns None; an
\* IntegrityError is not caught (500)
PatchDataset(h, d, upd) ==
    LET o == update_dataset(datasets, d, upd)
    IN  /\ handlers[h].op = "idle"
        /\ nreq < MaxCalls
        /\ nreq' = nreq + 1
        /\ datasets' = o.datasets
        /\ handlers' = [handlers EXCEPT ![h] =
              Answered(nreq + 1, "patch_dataset", [id |-> d, patch |-> upd],
                       CASE o.outcome = "None" -> 404
                         [] o.outcome = "IntegrityError" -> 500
                         [] OTHER -> 200)]
        /\ UNCHANGED <<experiments, results, answers, observations, expsets, queue,
                       workers, last_commit>>

\* remove_dataset without the count of the linked experiments
remove_dataset_unlinked(dsets, exps, d) ==
    IF d \notin DOMAIN dsets
    THEN [outcome |-> "False", linked_experiments |-> 0, datasets |-> dsets]
    ELSE [outcome |-> "True", linked_experiments |-> 0,
          datasets |-> [k \in DOMAIN dsets \ {d} |-> dsets[k]]]

\* crud.remove_dataset: SchemaError with the number of experiments linked to
\* the dataset when there are some, False when there is no such dataset,
\* else the dataset is deleted
remove_dataset(dsets, exps, d) ==
    LET linked_experiments == Cardinality({e \in DOMAIN exps : exps[e].dataset = d})
    IN  IF linked_experiments > 0
        THEN [outcome |-> "SchemaError", linked_experiments |-> linked_experiments,
              datasets |-> dsets]
        ELSE IF d \notin DOMAIN dsets
        THEN [outcome |-> "False", linked_experiments |-> 0, datasets |-> dsets]
        ELSE [outcome |-> "True", linked_experiments |-> 0,
              datasets |-> [k \in DOMAIN dsets \ {d} |-> dsets[k]]]

\* a call of crud.remove_dataset: what it returns or raises is the response,
\* the message of the SchemaError being the number of linked experiments
RemoveDataset(h, d) ==
    LET o == remove_dataset(datasets, experiments, d)
    IN  /\ handlers[h].op = "idle"
        /\ nreq < MaxCalls
        /\ nreq' = nreq + 1
        /\ datasets' = o.datasets
        /\ handlers' = [handlers EXCEPT ![h] =
              Answered(nreq + 1, "remove_dataset", d,
                       [outcome |-> o.outcome,
                        linked_experiments |-> o.linked_experiments])]
        /\ UNCHANGED <<experiments, results, answers, observations, expsets, queue,
                       workers, last_commit>>

NextData ==
    \/ \E h \in Handlers, name \in Dataframes : PostDataset(h, name)
    \/ \E d \in DOMAIN datasets, ms \in MetricLists, model \in BOOLEAN :
          CreateExperimentWithin(d, ms, model, 0, 1..MaxDeleted)
    \/ \E h \in Handlers, e \in DOMAIN experiments : DeleteExperiment(h, e)
    \/ \E h \in Handlers, d \in DatasetNames, upd \in DatasetPatches :
          PatchDataset(h, d, upd)
    \/ \E h \in Handlers, d \in DatasetNames : RemoveDataset(h, d)

SpecData == Init /\ [][NextData]_vars

\* ------------------------------------------------------------------------
\* The Results of an experiment under concurrent requests: two handlers
\* answer POST /experiment and PATCH /experiment/{id}, each round of the
\* loop of patch_experiment being a SELECT and then a commit of its own.
\* ------------------------------------------------------------------------
ResultHandlers == 1..(MaxHandlers + 1)

InitResults ==
    /\ RunStore
    /\ handlers = [h \in ResultHandlers |-> [op |-> "idle"]]

\* experiments with a metrics list that names a metric once or twice
ResultBodies ==
    [name : {PlainName}, dataset : {"dq"}, inline : {FALSE},
     metrics : {<<"nb_tokens_prompt">>, <<"nb_tokens_prompt", "nb_tokens_prompt">>},
     model : {TRUE}, set_id : {0}]

\* patches that name a metric, with or without a Result in the experiment
ResultPatches ==
    [update : {<<>>},
     metrics : {<<"nb_tokens_prompt">>, <<"nb_tokens_completion", "nb_tokens_prompt">>},
     rerun_answers : {FALSE}]

\* the metrics of the patch that handler h has still to go through
Todo(h) ==
    IF "todo" \in DOMAIN handlers[h] THEN handlers[h].todo
    ELSE handlers[h].patch.metrics

\* patch_experiment, line 135: crud.get_result for the next metric of the
\* patch; the loop is left when there is none
PatchGetResult(h) ==
    /\ handlers[h].op = "patch" /\ handlers[h].pc = "results"
    /\ handlers' = [handlers EXCEPT ![h] =
          IF Todo(h) = <<>>
          THEN [op |-> "patch", pc |-> "dispatch", id |-> handlers[h].id,
                patch |-> handlers[h].patch]
          ELSE [op |-> "patch", pc |-> "result", id |-> handlers[h].id,
                patch |-> handlers[h].patch, todo |-> Todo(h),
                result |-> get_result(results, handlers[h].id, Head(Todo(h)))]]
    /\ UNCHANGED <<experiments, results, answers, observations, expsets, queue,
                   workers, nreq, last_commit, datasets>>

\* patch_experiment, lines 136-140: the Result that was found is reset to
\* pending, or a Result is created; the insert of a second Result of the
\* experiment for the metric raises IntegrityError, which the handler does
\* not catch
PatchSetResult(h) ==
    LET e == handlers[h].id
        m == Head(handlers[h].todo)
        r == handlers[h].result
        raised == r = 0 /\ ~ResultUnique(results, e, m)
    IN  /\ handlers[h].op = "patch" /\ handlers[h].pc = "result"
        /\ results' = IF r # 0 THEN update_result(results, r, [metric_status |-> "pending"])
                      ELSE IF raised THEN results
                      ELSE create_result(results, e, m)
        /\ handlers' = [handlers EXCEPT ![h] =
              IF raised
              THEN [op |-> "idle", raised |-> "IntegrityError", id |-> e,
                    metric_name |-> m]
              ELSE [op |-> "patch", pc |-> "results", id |-> e,
                    patch |-> handlers[h].patch, todo |-> Tail(handlers[h].todo)]]
        /\ UNCHANGED <<experiments, answers, observations, expsets, queue, workers,
                       nreq, last_commit, datasets>>

NextResults ==
    \/ \E h \in ResultHandlers, b \in ResultBodies :
          PostExperimentWithin(h, b, 1..MaxDeleted, MaxCalls)
    \/ \E h \in ResultHandlers, e \in DOMAIN experiments, patch \in ResultPatches :
          PatchUpdateWithin(h, e, patch, MaxCalls)
    \/ \E h \in ResultHandlers : PatchGetResult(h)
    \/ \E h \in ResultHandlers : PatchSetResult(h)
    \/ \E h \in ResultHandlers : PatchDispatch(h)

SpecResults == InitResults /\ [][NextResults]_vars

\* ------------------------------------------------------------------------
\* The engine left to itself: experiments are created and the workers run
\* their tasks; no envelope is lost, no client patches or retries.
\* ------------------------------------------------------------------------
\* the steps of worker thread w: the loop of worker_routine never ends, so a
\* worker that can take a step eventually takes it
WorkerStep(w) ==
    \/ \E t \in BagToSet(queue) : WorkerRecv(w, t)
    \/ WorkerCommit(w)
    \/ CountAnswer(w)
    \/ CountObservation(w)

\* the sets the engine is given to run: an explicit list or a grid
RunSetBodies ==
    {body \in ExperimentSetBodies : body.kind \in {"list", "grid"} /\ Len(body.members) = 1}

NextRun ==
    \/ \E s \in SetIds : CreateExperimentSet(s)
    \/ \E d \in EngineDatasets, ms \in MetricLists, model \in BOOLEAN,
          s \in {0} \cup SetIds : CreateExperiment(d, ms, model, s)
    \/ \E h \in Handlers, body \in RunSetBodies : PostExperimentSet(h, body)
    \/ \E w \in Workers, t \in BagToSet(queue) : WorkerRecv(w, t)
    \/ \E w \in Workers : WorkerCommit(w)
    \/ \E w \in Workers : CountAnswer(w)
    \/ \E w \in Workers : CountObservation(w)

WorkerFairness == \A w \in Workers : WF_vars(WorkerStep(w))

SpecRun == Init /\ [][NextRun]_vars /\ WorkerFairness

\* ------------------------------------------------------------------------
\* The update and remove functions of crud called one at a time, with ids
\* the store has and ids it does not have, next to an experiment that has
\* run to its end and one that was just created.
\* ------------------------------------------------------------------------
\* the ids the calls name: those an Experiment or a Result can have here
\* and one that no row ever has
FrameIds == 1..(MaxDeleted + 1)

\* the fields of an ExperimentUpdate that are not None: none, one or two
ExperimentUpdates ==
    PatchUpdates \cup {[experiment_status |-> "finished", num_try |-> 1]}

\* the fields of a ResultUpdate that are not None
ResultUpdates ==
    {<<>>, [metric_status |-> "pending"], [num_try |-> 1, num_success |-> 1]}

\* the fields of an ExperimentSetUpdate that are not None
ExperimentSetUpdates == {<<>>, [name |-> "renamed"]}

\* a call of crud.update_experiment: the response is "None" when it returns
\* None
UpdateExperiment(h, e, upd) ==
    LET u == update_experiment(experiments, results, e, upd)
    IN  /\ handlers[h].op = "idle"
        /\ nreq < MaxCalls
        /\ nreq' = nreq + 1
        /\ experiments' = u.experiments
        /\ results' = u.results
        /\ handlers' = [handlers EXCEPT ![h] =
              Answered(nreq + 1, "update_experiment", [id |-> e, update |-> upd],
                       IF u.found THEN "updated" ELSE "None")]
        /\ UNCHANGED <<answers, observations, expsets, queue, workers, last_commit,
                       datasets>>

\* a call of crud.update_result
UpdateResult(h, r, upd) ==
    /\ handlers[h].op = "idle"
    /\ nreq < MaxCalls
    /\ nreq' = nreq + 1
    /\ results' = update_result(results, r, upd)
    /\ handlers' = [handlers EXCEPT ![h] =
          Answered(nreq + 1, "update_result", [id |-> r, update |-> upd],
                   IF r \in DOMAIN results THEN "updated" ELSE "None")]
    /\ UNCHANGED <<experiments, answers, observations, expsets, queue, workers,
                   last_commit, datasets>>

\* crud.update_experimentset: None when there is no such set; the name and
\* the readme it sets are attributes of the ExperimentSet row only, which
\* the store keeps by its id
update_experimentset(sets, s, upd) ==
    IF s \notin sets THEN [found |-> FALSE, expsets |-> sets]
    ELSE [found |-> TRUE, expsets |-> sets]

\* a call of crud.update_experimentset
UpdateExperimentSet(h, s, upd) ==
    LET u == update_experimentset(expsets, s, upd)
    IN  /\ handlers[h].op = "idle"
        /\ nreq < MaxCalls
        /\ nreq' = nreq + 1
        /\ expsets' = u.expsets
        /\ handlers' = [handlers EXCEPT ![h] =
              Answered(nreq + 1, "update_experimentset", [id |-> s, update |-> upd],
                       IF u.found THEN "updated" ELSE "None")]
        /\ UNCHANGED <<experiments, results, answers, observations, queue, workers,
                       last_commit, datasets>>

NextFrame ==
    \/ \E s \in SetIds : nreq = 0 /\ CreateExperimentSet(s)
    \/ \E d \in EngineDatasets, ms \in MetricLists, model \in BOOLEAN,
          s \in {0} \cup SetIds :
          nreq = 0 /\ CreateExperimentWithin(d, ms, model, s, 1..MaxDeleted)
    \/ \E h \in Handlers, e \in FrameIds, upd \in ExperimentUpdates :
          UpdateExperiment(h, e, upd)
    \/ \E h \in Handlers, r \in FrameIds, upd \in ResultUpdates :
          UpdateResult(h, r, upd)
    \/ \E h \in Handlers, s \in FrameIds, upd \in ExperimentSetUpdates :
          UpdateExperimentSet(h, s, upd)
    \/ \E h \in Handlers, d \in DatasetNames, upd \in DatasetPatches :
          PatchDataset(h, d, upd)
    \/ \E h \in Handlers, d \in DatasetNames : RemoveDataset(h, d)
    \/ \E h \in Handlers, e \in FrameIds : DeleteExperiment(h, e)
    \/ \E h \in Handlers, s \in FrameIds : DeleteExperimentSet(h, s)

SpecFrame == InitDelete /\ [][NextFrame]_vars

\* ------------------------------------------------------------------------
\* The dashboard: the view of an experiment set computes the status and the
\* counts it shows from the experiments of the set as the API returns them.
\* ------------------------------------------------------------------------
\* at most this many experiments in a set the dashboard shows
MaxShown == 2

\* an experiment as the dashboard reads it: its status, its counters of both
\* phases, the size of its dataset and the number of its metrics; a phase
\* has not been tried (0), was tried without success (1) or has succeeded (2)
\* on every row
ShownExperiments ==
    {[experiment_status |-> st,
      num_try |-> IF a = 0 THEN 0 ELSE size,
      num_success |-> IF a = 2 THEN size ELSE 0,
      num_observation_try |-> IF o = 0 THEN 0 ELSE size * m,
      num_observation_success |-> IF o = 2 THEN size * m ELSE 0,
      dataset |-> [size |-> size],
      num_metrics |-> m] :
        st \in ExperimentStatus, a \in 0..2, o \in 0..2, size \in 1..DatasetSize,
        m \in 1..2}

\* sum(...) over a list of numbers
RECURSIVE sum(_)
sum(s) == IF s = <<>> THEN 0 ELSE Head(s) + sum(Tail(s))

\* status_codes of _get_expset_status
status_codes ==
    [pending |-> [text |-> "Experiments did not start yet", color |-> "yellow"],
     running |-> [text |-> "Experiments are running", color |-> "orange"],
     finished |-> [text |-> "All experiments are finished", color |-> "green"]]

\* a bug: the test for finished comes before the test for pending
get_expset_status_finished_first(experiments_) ==
    LET n == Len(experiments_)
    IN  [status |->
            IF \A i \in 1..n : experiments_[i].experiment_status = "finished"
            THEN status_codes["finished"]
            ELSE IF \A i \in 1..n : experiments_[i].experiment_status = "pending"
            THEN status_codes["pending"]
            ELSE status_codes["running"],
         counts |->
            [total_answer_tries |-> sum([i \in 1..n |-> experiments_[i].num_try]),
             total_answer_successes |->
                sum([i \in 1..n |-> experiments_[i].num_success]),
             total_observation_tries |->
                sum([i \in 1..n |-> experiments_[i].num_observation_try]),
             total_observation_successes |->
                sum([i \in 1..n |-> experiments_[i].num_observation_success]),
             answer_length |-> sum([i \in 1..n |-> experiments_[i].dataset.size]),
             observation_length |->
                sum([i \in 1..n |->
                        experiments_[i].dataset.size * experiments_[i].num_metrics])]]

\* _get_expset_status(expset), experiments_ being expset["experiments"]: the
\* status is pending when all() of the experiments are pending, else
\* finished when all() are finished, else running; the counts are sums over
\* the experiments
get_expset_status(experiments_) ==
    LET n == Len(experiments_)
    IN  [status |->
            IF \A i \in 1..n : experiments_[i].experiment_status = "pending"
            THEN status_codes["pending"]
            ELSE IF \A i \in 1..n : experiments_[i].experiment_status = "finished"
            THEN status_codes["finished"]
            ELSE status_codes["running"],
         counts |->
            [total_answer_tries |-> sum([i \in 1..n |-> experiments_[i].num_try]),
             total_answer_successes |->
                sum([i \in 1..n |-> experiments_[i].num_success]),
             total_observation_tries |->
                sum([i \in 1..n |-> experiments_[i].num_observation_try]),
             total_observation_successes |->
                sum([i \in 1..n |-> experiments_[i].num_observation_success]),
             answer_length |-> sum([i \in 1..n |-> experiments_[i].dataset.size]),
             observation_length |->
                sum([i \in 1..n |->
                        experiments_[i].dataset.size * experiments_[i].num_metrics])]]

\* the view of a set: the dashboard calls _get_expset_status with the set it
\* has fetched and shows what it returns
ShowExpset(h, experiments_) ==
    /\ handlers[h].op = "idle"
    /\ nreq < MaxRequests
    /\ nreq' = nreq + 1
    /\ handlers' = [handlers EXCEPT ![h] =
          Answered(nreq + 1, "expset_status", experiments_,
                   get_expset_status(experiments_))]
    /\ UNCHANGED <<experiments, results, answers, observations, expsets, queue,
                   workers, last_commit, datasets>>

\* the set the dashboard is given is a list of experiments, which may be
\* empty
NextDashboard ==
    /\ nreq < MaxRequests
    /\ \E h \in Handlers, n \in 0..MaxShown :
          \E experiments_ \in [1..n -> ShownExperiments] : ShowExpset(h, experiments_)

SpecDashboard == Init /\ [][NextDashboard]_vars

\* ------------------------------------------------------------------------
\* The pool of workers with more envelopes than workers: an experiment with
\* two Results has twice as many observation tasks as its dataset has rows.
\* ------------------------------------------------------------------------
PoolMetricLists == {<<"nb_tokens_completion", "nb_tokens_prompt">>}

NextPool ==
    \/ \E d \in EngineDatasets, ms \in PoolMetricLists, model \in BOOLEAN :
          CreateExperiment(d, ms, model, 0)
    \/ \E w \in Workers, t \in BagToSet(queue) : WorkerRecv(w, t)
    \/ \E w \in Workers : WorkerCommit(w)
    \/ \E w \in Workers : CountAnswer(w)
    \/ \E w \in Workers : CountObservation(w)

SpecPool == Init /\ [][NextPool]_vars

\* ------------------------------------------------------------------------
\* The engine with tasks that fail: process_task may raise at any point of
\* a task, and worker_routine catches what it raises.
\* ------------------------------------------------------------------------
\* a worker whose thread ends with the exception
ExceptClauseExits(wk) == [wk EXCEPT !.pc = "stopped", !.outcome = "raised"]

\* worker_routine, lines 28-29: the exception is logged and the loop goes
\* back to recv_json
ExceptClause(wk) == [wk EXCEPT !.pc = "idle", !.outcome = "raised"]

\* process_task raises in worker w, before the upsert of the task is
\* committed or before the counters of its owner are written
ProcessTaskRaises(w) ==
    /\ workers[w].pc \in {"commit", "count"}
    /\ workers' = [workers EXCEPT ![w] = ExceptClause(@)]
    /\ UNCHANGED <<experiments, results, answers, observations, expsets, queue,
                   handlers, nreq, last_commit, datasets>>

NextRaise ==
    \/ \E d \in EngineDatasets, ms \in MetricLists, model \in BOOLEAN :
          CreateExperiment(d, ms, model, 0)
    \/ \E w \in Workers, t \in BagToSet(queue) : WorkerRecv(w, t)
    \/ \E w \in Workers : WorkerCommit(w)
    \/ \E w \in Workers : CountAnswer(w)
    \/ \E w \in Workers : CountObservation(w)
    \/ \E w \in Workers : ProcessTaskRaises(w)

SpecRaise == Init /\ [][NextRaise]_vars /\ WorkerFairness

\* ------------------------------------------------------------------------
\* The engine with a lossy queue: an envelope that was pushed and not yet
\* pulled may be lost (the queue keeps nothing across a restart); the client
\* calls the retry planner.
\* ------------------------------------------------------------------------
\* envelope t is lost before a worker pulls it
LoseTask(t) ==
    /\ BagIn(t, queue)
    /\ queue' = queue (-) SetToBag({t})
    /\ UNCHANGED <<experiments, results, answers, observations, expsets, workers,
                   handlers, nreq, last_commit, datasets>>

NextLoss ==
    \/ \E s \in SetIds : CreateExperimentSet(s)
    \/ \E d \in EngineDatasets, ms \in MetricLists, model \in BOOLEAN,
          s \in {0} \cup SetIds : CreateExperiment(d, ms, model, s)
    \/ \E t \in BagToSet(queue) : LoseTask(t)
    \/ \E h \in Handlers, s \in SetIds : RetryPlan(h, s)
    \/ \E h \in Handlers : RetryDispatch(h)
    \/ \E w \in Workers, t \in BagToSet(queue) : WorkerRecv(w, t)
    \/ \E w \in Workers : WorkerCommit(w)
    \/ \E w \in Workers : CountAnswer(w)
    \/ \E w \in Workers : CountObservation(w)

\* a handler that has planned the retries goes on to dispatch them
RetryFairness == \A h \in Handlers : WF_vars(RetryDispatch(h))

SpecLoss == Init /\ [][NextLoss]_vars /\ WorkerFairness /\ RetryFairness

\* ------------------------------------------------------------------------
\* The engine with reruns: experiments run, and a client asks for failed
\* rows to be retried or for an experiment to be rerun; the PATCH bodies
\* carry the rerun fields only (metrics, rerun_answers).
\* ------------------------------------------------------------------------
RerunPatches == {p \in Patches : p.update = <<>>}

NextRerun ==
    \/ \E s \in SetIds : CreateExperimentSet(s)
    \/ \E d \in EngineDatasets, ms \in MetricLists, model \in BOOLEAN,
          s \in {0} \cup SetIds : CreateExperiment(d, ms, model, s)
    \/ \E h \in Handlers, e \in ExpIds, patch \in RerunPatches : PatchUpdate(h, e, patch)
    \/ \E h \in Handlers : PatchResults(h)
    \/ \E h \in Handlers : PatchDispatch(h)
    \/ \E h \in Handlers, s \in SetIds : RetryPlan(h, s)
    \/ \E h \in Handlers : RetryDispatch(h)
    \/ \E w \in Workers, t \in BagToSet(queue) : WorkerRecv(w, t)
    \/ \E w \in Workers : WorkerCommit(w)
    \/ \E w \in Workers : CountAnswer(w)
    \/ \E w \in Workers : CountObservation(w)

SpecRerun == Init /\ [][NextRerun]_vars

\* ========================================================================
\* Properties
\* ========================================================================
SameAnswerKey(a, b) == a.experiment_id = b.experiment_id /\ a.num_line = b.num_line

SameObservationKey(a, b) == a.result_id = b.result_id /\ a.num_line = b.num_line

\* worker w has completed a call of upsert_answer
AnswerCallDone(w) ==
    workers[w].pc = "idle" /\ workers[w].outcome # Null /\ workers[w].task.kind = "answer"

\* C1: in every reachable state no two Answers share (experiment_id, num_line)
\* and no two Observations share (result_id, num_line), however the upsert
\* calls of the workers interleave.
C1_Uniqueness ==
    /\ \A a \in answers, b \in answers : SameAnswerKey(a, b) => a = b
    /\ \A a \in observations, b \in observations : SameObservationKey(a, b) => a = b

\* Two workers ran upsert_answer for one key at the same time: both read no
\* row, one insert was committed and the other was refused; one row exists.
C1_Witness ==
    \E w1 \in Workers, w2 \in Workers :
        /\ AnswerCallDone(w1) /\ AnswerCallDone(w2)
        /\ SameAnswerKey(workers[w1].task, workers[w2].task)
        /\ workers[w1].found = 0 /\ workers[w2].found = 0
        /\ workers[w1].outcome = "returned" /\ workers[w2].outcome = "raised"
        /\ Cardinality(answers) = 1

\* C2: when two workers have called upsert_answer for the same key, both
\* calls returned without raising, exactly one Answer exists for the key and
\* its fields are those written by the call that committed last.
C2_ConcurrentUpsertBothReturn ==
    \A w1 \in Workers, w2 \in Workers :
        (/\ w1 # w2
         /\ AnswerCallDone(w1) /\ AnswerCallDone(w2)
         /\ SameAnswerKey(workers[w1].task, workers[w2].task))
        => /\ workers[w1].outcome = "returned"
           /\ workers[w2].outcome = "returned"
           /\ LET rows == {a \in answers : SameAnswerKey(a, workers[w1].task)}
              IN  /\ Cardinality(rows) = 1
                  /\ \A a \in rows : \A k \in DOMAIN workers[last_commit].fields :
                        a[k] = workers[last_commit].fields[k]

\* C3: applying upsert_answer(e, n, f) twice in a row leaves the store as
\* applying it once does, from every store and for every key and mapping;
\* the same for upsert_observation.
C3_UpsertIdempotent ==
    /\ \A e \in DOMAIN experiments, n \in Lines, f \in Mappings(AnswerFields) :
          LET once == upsert_answer(answers, experiments, e, n, f).rows
          IN  upsert_answer(once, experiments, e, n, f).rows = once
    /\ \A r \in DOMAIN results, n \in Lines, f \in Mappings(ObservationFields) :
          LET once == upsert_observation(observations, results, r, n, f).rows
          IN  upsert_observation(once, results, r, n, f).rows = once

\* The same upsert_answer(e, n, f) was applied twice: the first call inserted
\* the row, the second found it and updated it.
C3_Witness ==
    \E w1 \in Workers, w2 \in Workers :
        /\ AnswerCallDone(w1) /\ AnswerCallDone(w2)
        /\ workers[w1].task = workers[w2].task
        /\ workers[w1].fields = workers[w2].fields
        /\ DOMAIN workers[w1].fields = AnswerFields
        /\ workers[w1].found = 0 /\ workers[w1].outcome = "returned"
        /\ workers[w2].found # 0 /\ workers[w2].outcome = "returned"
        /\ Cardinality(answers) = 1

\* C4: upsert_answer(e, n, f) inserts a new Answer when the key is absent and
\* otherwise overwrites exactly the fields f names on the existing Answer;
\* the fields f does not name and the Answers of other keys are unchanged.
C4_UpsertFrame ==
    \A e \in DOMAIN experiments, n \in Lines, f \in Mappings(AnswerFields) :
        LET found == FindAnswer(answers, e, n)
            after == upsert_answer(answers, experiments, e, n, f).rows
        IN  /\ \A x \in answers : x.id # found => x \in after
            /\ found = 0 =>
                  /\ Cardinality(after) = Cardinality(answers) + 1
                  /\ \E y \in after \ answers :
                        /\ y.experiment_id = e /\ y.num_line = n
                        /\ \A k \in AnswerFields :
                              y[k] = IF k \in DOMAIN f THEN f[k] ELSE Null
            /\ found # 0 =>
                  /\ Cardinality(after) = Cardinality(answers)
                  /\ \E y \in after, old \in answers :
                        /\ y.id = found /\ old.id = found
                        /\ y.experiment_id = e /\ y.num_line = n
                        /\ \A k \in AnswerFields :
                              y[k] = IF k \in DOMAIN f THEN f[k] ELSE old[k]

\* A call that names only the answer has updated a row whose error_msg was
\* set by an earlier call: the error_msg is still there.
C4_Witness ==
    \E w \in Workers, a \in answers :
        /\ AnswerCallDone(w)
        /\ workers[w].found = a.id /\ workers[w].outcome = "returned"
        /\ DOMAIN workers[w].fields = {"answer"}
        /\ a.answer = workers[w].fields.answer /\ a.answer # Null
        /\ a.error_msg = "err"

SizeOf(e) == Datasets[experiments[e].dataset].size

\* C5: for every Experiment, 0 <= num_success <= num_try <= dataset.size in
\* every reachable state.
C5_ExperimentCounters ==
    \A e \in DOMAIN experiments :
        /\ 0 <= experiments[e].num_success
        /\ experiments[e].num_success <= experiments[e].num_try
        /\ experiments[e].num_try <= SizeOf(e)

\* C6: for every Result, 0 <= num_success <= num_try <= dataset.size in
\* every reachable state.
C6_ResultCounters ==
    \A r \in DOMAIN results :
        /\ 0 <= results[r].num_success
        /\ results[r].num_success <= results[r].num_try
        /\ results[r].num_try <= SizeOf(results[r].experiment_id)

\* an answer task of experiment e is in the queue or in the hands of a worker
AnswerPending(e) ==
    \/ \E t \in BagToSet(queue) : t.kind = "answer" /\ t.experiment_id = e
    \/ \E w \in Workers :
          /\ workers[w].pc # "idle"
          /\ workers[w].task.kind = "answer" /\ workers[w].task.experiment_id = e

\* this step puts an observation task of experiment e in the queue
ObservationEnqueued(e) ==
    \E t \in BagToSet(queue') :
        /\ t.kind = "observation" /\ t.experiment_id = e
        /\ CopiesIn(t, queue') > CopiesIn(t, queue)

\* C7: no step enqueues an observation task of an experiment while an answer
\* task of that experiment is still enqueued or being processed.
C7_AnswersBeforeObservations ==
    [][\A e \in ExpIds : ObservationEnqueued(e) => ~AnswerPending(e)']_vars

\* C8: in every reachable state, every Result of a finished Experiment has
\* metric_status finished.
C8_FinishedHasFinishedResults ==
    \A e \in DOMAIN experiments :
        experiments[e].experiment_status = "finished"
        => \A r \in ResultsOf(results, e) : results[r].metric_status = "finished"

\* C9: when update_experiment sets experiment_status to finished, every
\* Result of the experiment has metric_status finished after the call,
\* whatever its status and its counters before: in every step that moves an
\* experiment to finished, and for the call made from any reachable store.
C9_FinishedCascades ==
    /\ [][\A e \in DOMAIN experiments :
            (/\ e \in DOMAIN experiments'
             /\ experiments[e].experiment_status # "finished"
             /\ experiments'[e].experiment_status = "finished")
            => \A r \in ResultsOf(results', e) :
                  results'[r].metric_status = "finished"]_vars
    /\ [](\A e \in DOMAIN experiments :
            LET u == update_experiment(experiments, results, e,
                                       [experiment_status |-> "finished"])
            IN  /\ u.experiments[e].experiment_status = "finished"
                /\ \A r \in ResultsOf(u.results, e) :
                      u.results[r].metric_status = "finished")

\* An experiment was moved to finished while its Result had not been tried on
\* every row with success: the Result is finished all the same.
C9_Witness ==
    \E e \in DOMAIN experiments, r \in DOMAIN results :
        /\ experiments[e].experiment_status = "finished"
        /\ results[r].experiment_id = e
        /\ results[r].metric_status = "finished"
        /\ results[r].num_try = SizeOf(e)
        /\ results[r].num_success < results[r].num_try

\* C10: an Experiment becomes finished only in a state where every Result of
\* it has num_try = dataset.size.
C10_FinishedOnlyWhenComplete ==
    [][\A e \in DOMAIN experiments :
          (/\ e \in DOMAIN experiments'
           /\ experiments[e].experiment_status # "finished"
           /\ experiments'[e].experiment_status = "finished")
          => \A r \in ResultsOf(results', e) :
                results'[r].num_try = Datasets[experiments'[e].dataset].size]_vars

\* experiment e is finished and its counters are complete
Completed(e) ==
    /\ e \in DOMAIN experiments
    /\ experiments[e].experiment_status = "finished"
    /\ NeedsOutput(experiments, results, e) => experiments[e].num_try = SizeOf(e)
    /\ \A r \in ResultsOf(results, e) : results[r].num_try = SizeOf(e)

TaskPending(e) ==
    \/ \E t \in BagToSet(queue) : t.experiment_id = e
    \/ \E w \in Workers : workers[w].pc # "idle" /\ workers[w].task.experiment_id = e

\* Experiment e of a set is not finished and no task of it is left although
\* no retry was asked for yet: an envelope of it was lost.
LostEnvelope(e) ==
    /\ e \in DOMAIN experiments
    /\ experiments[e].experiment_set_id \in expsets
    /\ experiments[e].experiment_status # "finished"
    /\ ~TaskPending(e)
    /\ nreq = 0

\* POST /retry/experiment_set/{id} was called and has returned
RetryReturned ==
    nreq > 0 /\ \A h \in Handlers : handlers[h].op = "idle"

\* C12: if an envelope of an experiment of a set was lost, then once
\* POST /retry/experiment_set/{id} has been called on the set afterwards the
\* experiment eventually is finished with complete counters (workers fair).
C12_RetryRecoversLostTasks ==
    \A e \in ExpIds :
        [](LostEnvelope(e) => [](RetryReturned => <>Completed(e)))

RetryPlanStep(h) == handlers[h].op = "idle" /\ handlers'[h].op = "retry"

\* this step is the dispatch_retries of retry_runs by handler h
RetryDispatchStep(h) == handlers[h].op = "retry" /\ handlers'[h].op = "idle"

\* number of copies of envelope t this step adds to the queue
Enqueued(t) == CopiesIn(t, queue') - CopiesIn(t, queue)

\* experiment e of set s is finished and its answer phase left a failed Answer
FinishedWithFailedAnswer(e, s) ==
    /\ experiments[e].experiment_set_id = s
    /\ experiments[e].experiment_status = "finished"
    /\ NeedsOutput(experiments, results, e)
    /\ \E a \in answers : a.experiment_id = e /\ a.error_msg # Null

\* C14: the retry of a finished experiment whose answer phase had failures
\* selects the experiment and enqueues exactly one answer task for each row
\* whose Answer is missing or failed, and none for a row that has a
\* successful Answer.
C14_RetryEnqueuesFailedRows ==
    [][\A h \in Handlers :
          /\ RetryPlanStep(h) =>
                \A e \in DOMAIN experiments :
                    FinishedWithFailedAnswer(e, handlers'[h].id)
                    => e \in handlers'[h].experiment_ids
          /\ RetryDispatchStep(h) =>
                \A e \in handlers[h].experiment_ids : \A n \in LinesOf(experiments, e) :
                    Enqueued(Task("answer", e, n, 0, Null)) =
                        IF SuccessfulAnswer(answers, e, n) THEN 0 ELSE 1]_vars

\* The retry of an experiment with one successful and one failed Answer has
\* put one envelope in the queue: the answer task of the failed row.
C14_Witness ==
    \E e \in DOMAIN experiments, ok \in answers, ko \in answers :
        /\ nreq > 0
        /\ experiments[e].experiment_status = "running_answers"
        /\ experiments[e].num_try = SizeOf(e)
        /\ ok.experiment_id = e /\ ok.error_msg = Null
        /\ ko.experiment_id = e /\ ko.error_msg # Null
        /\ queue = SetToBag({Task("answer", e, ko.num_line, 0, Null)})

\* C15: the retry planner selects an experiment of the set for the answers
\* phase if and only if it is finished, its num_try differs from its
\* num_success, its dataset has no output column and a metric of its Results
\* requires output; no Result of an experiment in another status is selected.
C15_RetrySelectsExperiments ==
    [][\A h \in Handlers :
          RetryPlanStep(h) =>
              /\ \A e \in DOMAIN experiments :
                    e \in handlers'[h].experiment_ids
                    <=> /\ experiments[e].experiment_set_id = handlers'[h].id
                        /\ experiments[e].experiment_status = "finished"
                        /\ experiments[e].num_try # experiments[e].num_success
                        /\ ~Datasets[experiments[e].dataset].has_output
                        /\ \E r \in DOMAIN results :
                              /\ results[r].experiment_id = e
                              /\ "output" \in MetricRequire[results[r].metric_name]
              /\ handlers'[h].experiment_ids \subseteq DOMAIN experiments
              /\ \A r \in handlers'[h].result_ids :
                    experiments[results[r].experiment_id].experiment_status = "finished"]_vars

\* The planner has selected an experiment for the answers phase.
C15_Witness ==
    \E h \in Handlers :
        /\ handlers[h].op = "retry"
        /\ handlers[h].experiment_ids # {}
        /\ handlers[h].result_ids = {}

\* C16: the retry planner selects a Result if and only if its experiment is
\* a finished experiment of the set that was not selected for the answers
\* phase, the Result is finished and its num_try differs from its
\* num_success; no selected Result belongs to a selected experiment.
C16_RetrySelectsResults ==
    [][\A h \in Handlers :
          RetryPlanStep(h) =>
              /\ \A r \in DOMAIN results :
                    r \in handlers'[h].result_ids
                    <=> LET e == results[r].experiment_id
                        IN  /\ experiments[e].experiment_set_id = handlers'[h].id
                            /\ experiments[e].experiment_status = "finished"
                            /\ e \notin handlers'[h].experiment_ids
                            /\ results[r].metric_status = "finished"
                            /\ results[r].num_try # results[r].num_success
              /\ handlers'[h].result_ids \subseteq DOMAIN results
              /\ \A r \in handlers'[h].result_ids :
                    results[r].experiment_id \notin handlers'[h].experiment_ids]_vars

\* The planner has selected a Result with a failed observation, of an
\* experiment whose answers need no retry.
C16_Witness ==
    \E h \in Handlers, r \in DOMAIN results :
        /\ handlers[h].op = "retry"
        /\ handlers[h].result_ids = {r}
        /\ handlers[h].experiment_ids = {}
        /\ results[r].num_success < results[r].num_try

\* experiment e has to start with the answers phase: its dataset has no
\* output column and a metric of its Results requires output
AnswersPhaseNeeded(e) ==
    /\ ~Datasets[experiments[e].dataset].has_output
    /\ \E r \in DOMAIN results :
          /\ results[r].experiment_id = e
          /\ "output" \in MetricRequire[results[r].metric_name]

\* the envelopes of experiment e of the given kind in bag q
TasksOf(q, e, kind) == {t \in BagToSet(q) : t.experiment_id = e /\ t.kind = kind}

AnsweredStep(h, kind) ==
    /\ nreq' = nreq + 1
    /\ "request" \in DOMAIN handlers'[h]
    /\ handlers'[h].seq = nreq'
    /\ handlers'[h].request.kind = kind

\* the dataset of body b exists: a name that is found, or an inline dataset
\* with a dataframe that can be a dataset
DatasetKnown(dsets, b) ==
    IF b.inline THEN b.dataset \in DatasetNames ELSE b.dataset \in dsets

\* what the metrics of an experiment require, together
RequiredBy(metrics) == UNION {MetricRequire[metrics[i]] : i \in DOMAIN metrics}

\* the four rules an experiment has to meet
Compatible(b) ==
    LET d == Datasets[b.dataset]
        req == RequiredBy(b.metrics)
    IN  /\ "query" \notin req \/ d.has_query
        /\ "output" \notin req \/ d.has_output \/ b.model
        /\ "output_true" \notin req \/ d.has_output_true
        /\ ~(b.model /\ d.has_output)

\* C18: the validation of ExperimentCreate accepts an experiment if and only
\* if (1) no metric requires query or the dataset has it, (2) no metric
\* requires output, or the dataset has it, or a model is given, (3) no
\* metric requires output_true or the dataset has it, (4) not both a model is
\* given and the dataset has output; otherwise it raises a schema error.
C18_ValidationRules ==
    [][\A h \in Handlers :
          (AnsweredStep(h, "post_experiment")
           /\ DatasetKnown(DOMAIN datasets, handlers'[h].request.body))
          => (handlers'[h].response # 400 <=> Compatible(handlers'[h].request.body))]_vars

\* An experiment whose metric requires output, on a dataset without output
\* column, was accepted because a model is given.
C18_Witness ==
    \E h \in Handlers :
        /\ "request" \in DOMAIN handlers[h]
        /\ handlers[h].request.kind = "post_experiment"
        /\ handlers[h].response = 200
        /\ "output" \in RequiredBy(handlers[h].request.body.metrics)
        /\ ~Datasets[handlers[h].request.body.dataset].has_output
        /\ handlers[h].request.body.model
        /\ experiments # <<>>

\* C19: a POST /experiment that breaks a rule of metric / dataset
\* compatibility is answered 400, and a POST /experiment answered 400
\* persists no Experiment, no Result and no Dataset and enqueues no task.
C19_RejectedExperimentWritesNothing ==
    [][\A h \in Handlers :
          AnsweredStep(h, "post_experiment")
          => /\ (DatasetKnown(DOMAIN datasets, handlers'[h].request.body)
                 /\ ~Compatible(handlers'[h].request.body))
                => handlers'[h].response = 400
             /\ handlers'[h].response = 400
                => /\ experiments' = experiments
                   /\ results' = results
                   /\ datasets' = datasets
                   /\ queue' = queue]_vars

\* An experiment with a metric that requires output_true, sent with an
\* inline dataset that has no such column, was answered 400: the store has
\* no experiment, no task, and not the dataset.
C19_Witness ==
    \E h \in Handlers :
        /\ "request" \in DOMAIN handlers[h]
        /\ handlers[h].request.kind = "post_experiment"
        /\ handlers[h].response = 400
        /\ handlers[h].request.body.inline
        /\ handlers[h].request.body.dataset \in DatasetNames \ DOMAIN datasets
        /\ ~Datasets[handlers[h].request.body.dataset].has_output_true
        /\ "output_true" \in RequiredBy(handlers[h].request.body.metrics)
        /\ experiments = <<>> /\ results = <<>> /\ queue = EmptyBag

\* C20: a POST /experiment_set one experiment of which (of the explicit list
\* or of the grid) breaks a validation rule, or that gives both experiments
\* and cv, is answered with a schema error, persists no ExperimentSet and no
\* Experiment and enqueues no task.
C20_SetAllOrNothing ==
    [][\A h \in Handlers :
          LET body == handlers'[h].request.body
          IN  (/\ AnsweredStep(h, "post_experimentset")
               /\ \/ body.kind = "both"
                  \/ \E i \in DOMAIN body.members :
                        /\ DatasetKnown(DOMAIN datasets, body.members[i])
                        /\ ~Compatible(body.members[i]))
              => /\ handlers'[h].response = 400
                 /\ expsets' = expsets
                 /\ experiments' = experiments
                 /\ results' = results
                 /\ queue' = queue]_vars

\* what the metrics of the Results of experiment e require, together
StoredRequire(e) ==
    UNION {MetricRequire[results[r].metric_name] : r \in ResultsOf(results, e)}

\* experiment e, as the store holds it, meets the four rules
StoredCompatible(e) ==
    LET d == Datasets[experiments[e].dataset]
        req == StoredRequire(e)
    IN  /\ "query" \notin req \/ d.has_query
        /\ "output" \notin req \/ d.has_output \/ experiments[e].model
        /\ "output_true" \notin req \/ d.has_output_true
        /\ ~(experiments[e].model /\ d.has_output)

\* C21: whatever request created an experiment or added metrics to it, no
\* task is in the queue for an experiment that breaks the rules of metric /
\* dataset compatibility: one metric of which requires a column that the
\* dataset has not and (for output) no model produces.
C21_NoTaskForIncompatible ==
    \A e \in DOMAIN experiments :
        TasksOf(queue, e, "answer") \cup TasksOf(queue, e, "observation") # {}
        => StoredCompatible(e)

\* the configuration of experiment x in the tables exps and ress is that of
\* member m
SameConfig(exps, ress, x, m) ==
    /\ exps[x].dataset = m.dataset
    /\ exps[x].model = m.model
    /\ {ress[r].metric_name : r \in ResultsOf(ress, x)} = {m.metrics[i] : i \in DOMAIN m.metrics}

\* C22: a set created from a grid of |G| points with repeat r has exactly
\* |G| * r experiments, named {set name}__0 .. {set name}__(|G| * r - 1),
\* each name once, and the r experiments of one point have consecutive
\* numbers: number i belongs to point i div r.
C22_GridNames ==
    [][\A h \in Handlers :
          LET body == handlers'[h].request.body
              s == NewSetKey(expsets)
              count == Len(body.members) * body.repeat
              created == SetExps(experiments', s)
          IN  (/\ AnsweredStep(h, "post_experimentset")
               /\ body.kind = "grid"
               /\ handlers'[h].response = 200)
              => /\ expsets' = expsets \cup {s}
                 /\ Cardinality(created) = count
                 /\ {experiments'[x].name : x \in created}
                      = {Name(SetName, TRUE, i) : i \in 0..(count - 1)}
                 /\ \A x \in created :
                       SameConfig(experiments', results', x,
                                  body.members[(experiments'[x].name.n \div body.repeat) + 1])]_vars

\* A set was created from a grid of two different points with repeat 2: it
\* has four experiments.
C22_Witness ==
    \E h \in Handlers :
        /\ "request" \in DOMAIN handlers[h]
        /\ handlers[h].request.kind = "post_experimentset"
        /\ handlers[h].response = 200
        /\ handlers[h].request.body.kind = "grid"
        /\ handlers[h].request.body.repeat = 2
        /\ Len(handlers[h].request.body.members) = 2
        /\ handlers[h].request.body.members[1] # handlers[h].request.body.members[2]
        /\ Cardinality(SetExps(experiments, 1)) = 4

RowsOf(exps, ress, ans, obs, es) ==
    [experiments |-> [x \in DOMAIN exps \cap es |-> exps[x]],
     results |-> [r \in {k \in DOMAIN ress : ress[k].experiment_id \in es} |-> ress[r]],
     answers |-> {a \in ans : a.experiment_id \in es},
     observations |-> {o \in obs : \E r \in DOMAIN ress :
                                      r = o.result_id /\ ress[r].experiment_id \in es}]

\* nothing of the experiments es is left in the store of the next state: no
\* Experiment, no Result, no Answer, and no Observation of a Result that was
\* theirs
Gone(es) ==
    /\ DOMAIN experiments' \cap es = {}
    /\ \A r \in DOMAIN results' : results'[r].experiment_id \notin es
    /\ \A a \in answers' : a.experiment_id \notin es
    /\ \A o \in observations' :
          \A r \in DOMAIN results : results[r].experiment_id \in es => o.result_id # r

\* the rows of every experiment that is not in es are the same in the next state
OthersKept(es) ==
    RowsOf(experiments', results', answers', observations', DOMAIN experiments \ es)
      = RowsOf(experiments, results, answers, observations, DOMAIN experiments \ es)

\* C24: once remove_experiment(e) has returned True, the store has no
\* Experiment e, no Answer and no Result of e and no Observation of a Result
\* of e, and the rows of the other experiments are what they were.
C24_ExperimentCascade ==
    [][\A h \in Handlers :
          (AnsweredStep(h, "delete_experiment") /\ handlers'[h].response = 200)
          => /\ Gone({handlers'[h].request.body})
             /\ OthersKept({handlers'[h].request.body})]_vars

\* worker w has upserted a row of experiment e and has not yet counted it
Upserted(w, e) ==
    /\ workers[w].pc = "count"
    /\ workers[w].task.experiment_id = e

\* Experiment 2 was deleted after a worker had upserted an Answer of it:
\* that Answer is gone, and experiment 1 is there with its rows.
C24_Witness ==
    \E h \in Handlers, w \in Workers :
        /\ "request" \in DOMAIN handlers[h]
        /\ handlers[h].request = [kind |-> "delete_experiment", body |-> 2]
        /\ handlers[h].response = 200
        /\ handlers[h].seq = nreq
        /\ Upserted(w, 2) /\ workers[w].task.kind = "answer"
        /\ 2 \notin DOMAIN experiments
        /\ 1 \in DOMAIN experiments
        /\ Cardinality(answers) = DatasetSize
        /\ Cardinality(observations) = DatasetSize

\* this step is a step of worker w on a task of an experiment that is deleted
LateStep(w) ==
    /\ workers[w].pc \in {"commit", "count"}
    /\ workers[w].task.experiment_id \notin DOMAIN experiments
    /\ workers'[w] # workers[w]

\* C25: after an experiment is deleted with tasks of it in the queue or in a
\* worker, no Answer and no Observation ever refers to it; the upsert of
\* such a task raises and its worker goes back to receiving; the tables and
\* the queue are left as they are by the late steps.
C25_NoResurrection ==
    /\ [](/\ \A a \in answers : a.experiment_id \in DOMAIN experiments
          /\ \A o \in observations :
                /\ o.result_id \in DOMAIN results
                /\ results[o.result_id].experiment_id \in DOMAIN experiments
          /\ \A r \in DOMAIN results : results[r].experiment_id \in DOMAIN experiments)
    /\ [][\A w \in Workers :
            LateStep(w)
            => /\ workers'[w].pc = "idle"
               /\ workers[w].pc = "commit" => workers'[w].outcome = "raised"
               /\ UNCHANGED <<experiments, results, answers, observations, queue>>]_vars

\* The upsert of a task of experiment 2, deleted in between, has raised; the
\* worker is back at receiving and experiment 1 has its rows.
C25_Witness ==
    \E w \in Workers :
        /\ workers[w].pc = "idle"
        /\ workers[w].outcome = "raised"
        /\ workers[w].task.experiment_id = 2
        /\ 2 \notin DOMAIN experiments
        /\ 1 \in DOMAIN experiments
        /\ Cardinality(answers) = DatasetSize
        /\ Cardinality(observations) = DatasetSize

LinkedExperiments(exps, d) == {e \in DOMAIN exps : exps[e].dataset = d}

\* C27: remove_dataset on a dataset that N >= 1 experiments refer to raises
\* a SchemaError that carries N and changes neither the datasets nor the
\* experiments; and a dataset leaves the store only in a step before which
\* no experiment refers to it.
C27_RemoveDatasetRefused ==
    [][/\ \A h \in Handlers :
            (/\ AnsweredStep(h, "remove_dataset")
             /\ LinkedExperiments(experiments, handlers'[h].request.body) # {})
            => /\ handlers'[h].response.outcome = "SchemaError"
               /\ handlers'[h].response.linked_experiments =
                    Cardinality(LinkedExperiments(experiments,
                                                  handlers'[h].request.body))
               /\ datasets' = datasets
               /\ experiments' = experiments
               /\ results' = results
       /\ \A d \in DOMAIN datasets \ DOMAIN datasets' :
            LinkedExperiments(experiments, d) = {}]_vars

\* remove_dataset was refused for a dataset that two experiments refer to:
\* the message carries 2, the dataset and the two experiments are there.
C27_Witness ==
    \E h \in Handlers :
        /\ "request" \in DOMAIN handlers[h]
        /\ handlers[h].request.kind = "remove_dataset"
        /\ handlers[h].seq = nreq
        /\ handlers[h].response.outcome = "SchemaError"
        /\ handlers[h].response.linked_experiments = MaxDeleted
        /\ handlers[h].request.body \in DOMAIN datasets
        /\ Cardinality(LinkedExperiments(experiments, handlers[h].request.body))
             = MaxDeleted

\* the columns of dataset row r that DatasetCreate.to_table_init computes
\* from the dataframe, with the dataframe
Payload(r) ==
    [df |-> r.df, has_query |-> r.has_query, has_output |-> r.has_output,
     has_output_true |-> r.has_output_true, size |-> r.size]

ResultsFor(ress, e, m) ==
    {r \in DOMAIN ress : ress[r].experiment_id = e /\ ress[r].metric_name = m}

\* C29: in every state no two Results have the same experiment and the same
\* metric, whether experiments are created with a metric named twice or a
\* metric is named by PATCH /experiment requests that run at the same time.
C29_OneResultPerMetric ==
    \A r1 \in DOMAIN results, r2 \in DOMAIN results :
        (/\ results[r1].experiment_id = results[r2].experiment_id
         /\ results[r1].metric_name = results[r2].metric_name)
        => r1 = r2

\* Two PATCH requests named a metric that experiment 1 had no Result for and
\* both found none: one has created the Result and gone on, the insert of
\* the other was refused, and there is one Result for the metric.
C29_Witness ==
    \E h1 \in ResultHandlers, h2 \in ResultHandlers :
        /\ "raised" \in DOMAIN handlers[h1]
        /\ handlers[h1].raised = "IntegrityError"
        /\ handlers[h1].id = 1
        /\ handlers[h1].metric_name = "nb_tokens_prompt"
        /\ handlers[h2].op = "patch"
        /\ handlers[h2].id = 1
        /\ Cardinality(ResultsFor(results, 1, "nb_tokens_prompt")) = 1
        /\ Cardinality(ResultsFor(results, 1, "nb_tokens_completion")) = 1

\* C30: an exception of process_task does not end the loop of a worker: every
\* worker comes back to recv_json again and again, whatever its tasks
\* raised, and every envelope of the queue is pulled in the end.
C30_WorkerSurvivesTaskError ==
    /\ \A w \in Workers : []<>(workers[w].pc = "idle")
    /\ []<>(queue = EmptyBag)

\* The task of a worker has raised before its upsert was committed, the
\* worker waits in recv_json and can pull one of the envelopes that are left
\* in the queue.
C30_Witness ==
    \E w \in Workers :
        /\ workers[w].outcome = "raised"
        /\ workers[w].pc = "idle"
        /\ workers[w].task.kind = "answer"
        /\ answers = {}
        /\ queue # EmptyBag
        /\ ENABLED WorkerStep(w)

\* the workers that have upserted a row for a task of the given kind and not
\* yet counted it, with (ok) or without regard to its error_msg
Uncounted(kind, owner, ok) ==
    {w \in Workers :
        /\ workers[w].pc = "count" /\ workers[w].task.kind = kind
        /\ IF kind = "answer" THEN workers[w].task.experiment_id = owner
                              ELSE workers[w].task.result_id = owner
        /\ ok => workers[w].fields.error_msg = Null}

\* C31: every completed task is one attempt, whatever the interleaving of the
\* workers: num_try of an experiment (of a Result) is the number of its
\* answer (observation) tasks that were run and counted, and num_success is
\* the number of those whose error_msg is null.
C31_OneAttemptPerTask ==
    /\ \A e \in DOMAIN experiments :
          /\ experiments[e].num_try =
                Cardinality({a \in answers : a.experiment_id = e})
                  - Cardinality(Uncounted("answer", e, FALSE))
          /\ experiments[e].num_success =
                Cardinality({a \in answers : a.experiment_id = e /\ a.error_msg = Null})
                  - Cardinality(Uncounted("answer", e, TRUE))
    /\ \A r \in DOMAIN results :
          /\ results[r].num_try =
                Cardinality({o \in observations : o.result_id = r})
                  - Cardinality(Uncounted("observation", r, FALSE))
          /\ results[r].num_success =
                Cardinality({o \in observations : o.result_id = r /\ o.error_msg = Null})
                  - Cardinality(Uncounted("observation", r, TRUE))

\* The answers of an experiment are upserted, one of them with an error, and
\* one worker has still to count its task: the experiment is one attempt
\* short of the size of its dataset.
C31_Witness ==
    \E e \in DOMAIN experiments, w \in Workers :
        /\ Cardinality({a \in answers : a.experiment_id = e}) = DatasetSize
        /\ Cardinality({a \in answers : a.experiment_id = e /\ a.error_msg = Null}) = 1
        /\ Uncounted("answer", e, FALSE) = {w}
        /\ experiments[e].num_try = DatasetSize - 1

\* bag q holds one envelope, and one copy of it, for each element of keys,
\* an envelope of experiment e of the given kind being keyed by key(t), and no
\* other envelope of experiment e
OneTaskPer(q, e, kind, keys, key(_)) ==
    /\ \A k \in keys :
          \E t \in TasksOf(q, e, kind) :
              /\ key(t) = k
              /\ CopiesIn(t, q) = 1
              /\ \A u \in TasksOf(q, e, kind) : key(u) = k => u = t
    /\ \A t \in BagToSet(q) : t.experiment_id = e => (t.kind = kind /\ key(t) \in keys)

\* the row an answer envelope is for
AnswerKey(t) == t.num_line

\* the Result and the row an observation envelope is for
ObservationKey(t) == <<t.result_id, t.num_line>>

\* C32: the dispatch of a new experiment enqueues, for the answers phase, one
\* answer task for each row 0..n-1 of its dataset and none twice, and for the
\* observations phase one observation task for each of its Results and each
\* row.
C32_FreshDispatchTasks ==
    [][\A e \in DOMAIN experiments' \ DOMAIN experiments :
          IF experiments'[e].experiment_status = "running_answers"
          THEN OneTaskPer(queue', e, "answer",
                          0..(Datasets[experiments'[e].dataset].size - 1), AnswerKey)
          ELSE OneTaskPer(queue', e, "observation",
                          ResultsOf(results', e)
                            \X (0..(Datasets[experiments'[e].dataset].size - 1)),
                          ObservationKey)]_vars

\* POST /experiment has created an experiment with a model on a dataset that
\* has no output column: the queue holds one answer task for each row.
C32_Witness ==
    \E h \in Handlers, e \in DOMAIN experiments :
        /\ "request" \in DOMAIN handlers[h]
        /\ handlers[h].request.kind = "post_experiment"
        /\ handlers[h].response = 200
        /\ handlers[h].seq = nreq
        /\ experiments[e].experiment_status = "running_answers"
        /\ experiments[e].model
        /\ Cardinality(TasksOf(queue, e, "answer")) = DatasetSize
        /\ BagCardinality(queue) = DatasetSize

\* C33: when POST /experiment_set creates a set, each of its experiments is
\* dispatched once, to the answers phase if it needs output and to the
\* observations phase otherwise, whatever the other experiments of the set
\* are: its envelopes are in the queue, one copy of each.
C33_SetMembersDispatchedOnce ==
    [][\A h \in Handlers :
          (AnsweredStep(h, "post_experimentset") /\ handlers'[h].response = 200)
          => /\ Cardinality(DOMAIN experiments' \ DOMAIN experiments)
                  = Len(SetExperiments(handlers'[h].request.body))
             /\ \A e \in DOMAIN experiments' \ DOMAIN experiments :
                   IF NeedsOutput(experiments', results', e)
                   THEN /\ experiments'[e].experiment_status = "running_answers"
                        /\ OneTaskPer(queue', e, "answer", LinesOf(experiments', e),
                                      AnswerKey)
                   ELSE /\ experiments'[e].experiment_status = "running_metrics"
                        /\ OneTaskPer(queue', e, "observation",
                                      ResultsOf(results', e) \X LinesOf(experiments', e),
                                      ObservationKey)]_vars

\* A grid of two points with repeat 2 has made four experiments: two are in
\* the answers phase, two in the observations phase, and the queue holds the
\* envelopes of the four.
C33_Witness ==
    \E h \in Handlers :
        /\ "request" \in DOMAIN handlers[h]
        /\ handlers[h].request.kind = "post_experimentset"
        /\ handlers[h].response = 200
        /\ handlers[h].seq = nreq
        /\ handlers[h].request.body.kind = "grid"
        /\ Len(handlers[h].request.body.members) = 2
        /\ handlers[h].request.body.repeat = 2
        /\ Cardinality(DOMAIN experiments) = 4
        /\ Cardinality({e \in DOMAIN experiments :
                           experiments[e].experiment_status = "running_answers"}) = 2
        /\ Cardinality({e \in DOMAIN experiments :
                           experiments[e].experiment_status = "running_metrics"}) = 2
        /\ BagCardinality(queue) = 4 * DatasetSize

\* the workers that are processing an envelope
Busy == {w \in Workers : workers[w].pc # "idle"}

\* C34: at most MAX_CONCURRENT_TASKS envelopes are being processed at any
\* time, no two workers process the same envelope, and an envelope that
\* leaves the queue goes to exactly one worker, which was waiting for it.
C34_OneWorkerPerEnvelope ==
    /\ [](/\ Cardinality(Busy) <= MaxWorkers
          /\ \A w1 \in Busy, w2 \in Busy :
                workers[w1].task = workers[w2].task => w1 = w2)
    /\ [][\A t \in BagToSet(queue) :
            CopiesIn(t, queue') < CopiesIn(t, queue)
            => /\ CopiesIn(t, queue') = CopiesIn(t, queue) - 1
               /\ Cardinality({w \in Workers :
                     /\ workers[w].pc = "idle" /\ workers'[w].pc # "idle"
                     /\ workers'[w].task = t}) = 1
               /\ \A w \in Busy : workers'[w] = workers[w]]_vars

\* Every worker of the pool is processing an envelope of its own and other
\* envelopes wait in the queue.
C34_Witness ==
    /\ Cardinality(Busy) = MaxWorkers
    /\ Cardinality({workers[w].task : w \in Busy}) = MaxWorkers
    /\ BagCardinality(queue) >= MaxWorkers

\* this step dispatches the answers phase of experiment e: an answer task of
\* it is pushed, or it goes to running_answers
AnswersDispatched(e) ==
    \/ \E t \in BagToSet(queue') :
          /\ t.kind = "answer" /\ t.experiment_id = e
          /\ CopiesIn(t, queue') > CopiesIn(t, queue)
    \/ /\ e \in DOMAIN experiments'
       /\ experiments'[e].experiment_status = "running_answers"
       /\ experiments[e].experiment_status # "running_answers"

\* C35: the answers phase is dispatched only for an experiment that is
\* pending or running_answers, never for one that is running_metrics or
\* finished, whether by PATCH /experiment with rerun_answers or by the retry
\* planner (an experiment that is created is pending when it is dispatched).
C35_AnswersDispatchPrecondition ==
    [][\A e \in DOMAIN experiments :
          AnswersDispatched(e)
          => experiments[e].experiment_status \in {"pending", "running_answers"}]_vars

\* this step is handler h taking a PATCH /experiment request up to its answer
\* (404 or 400) or up to the loop over its metrics
PatchStep(h) ==
    /\ nreq' = nreq + 1
    /\ handlers[h].op = "idle"
    /\ handlers'[h].op \in {"idle", "patch"}

\* C36: PATCH /experiment on an experiment that is running_answers or
\* running_metrics is refused without effect: the handler does not go on to
\* the Results and to the dispatch, and no field of the experiment or of its
\* Results is changed.
C36_PatchRunningRefused ==
    [][\A h \in Handlers : PatchStep(h) =>
          \A e \in DOMAIN experiments :
              experiments[e].experiment_status \in {"running_answers", "running_metrics"}
              => /\ ~(handlers'[h].op = "patch" /\ handlers'[h].id = e)
                 /\ experiments'[e] = experiments[e]
                 /\ \A r \in ResultsOf(results, e) : results'[r] = results[r]]_vars

\* C37: whenever answer tasks of an experiment are pushed (when it is created,
\* by PATCH /experiment with rerun_answers, by the retry planner), the
\* experiment has a model and its dataset has a query column.
C37_AnswersNeedModelAndQuery ==
    [][\A t \in BagToSet(queue') :
          (t.kind = "answer" /\ Enqueued(t) > 0)
          => /\ experiments'[t.experiment_id].model
             /\ Datasets[experiments'[t.experiment_id].dataset].has_query]_vars

\* the metrics named by patch p
Named(p) == {p.metrics[i] : i \in DOMAIN p.metrics}

RowFrame(old, new, upd) ==
    /\ DOMAIN new = DOMAIN old
    /\ \A k \in DOMAIN old : new[k] = IF k \in DOMAIN upd THEN upd[k] ELSE old[k]

\* the table after an update of row id: the same keys, row id as RowFrame
\* says, every other row as it was
TableFrame(old, new, id, upd) ==
    /\ DOMAIN new = DOMAIN old
    /\ \A x \in DOMAIN old :
          IF x = id THEN RowFrame(old[x], new[x], upd) ELSE new[x] = old[x]

\* the Results after update_experiment(e, upd): those of e are finished when
\* upd sets experiment_status to finished, nothing else changes
ResultsFrame(e, upd) ==
    IF "experiment_status" \in DOMAIN upd /\ upd.experiment_status = "finished"
    THEN /\ DOMAIN results' = DOMAIN results
         /\ \A r \in DOMAIN results :
               IF results[r].experiment_id = e
               THEN RowFrame(results[r], results'[r], [metric_status |-> "finished"])
               ELSE results'[r] = results[r]
    ELSE results' = results

\* the tables no update function writes
NoUpdateWrites == <<answers, observations, expsets, queue, workers, last_commit>>

\* nothing of the store changes
StoreUnchanged ==
    UNCHANGED <<experiments, results, answers, observations, expsets, queue,
                workers, last_commit, datasets>>

RECURSIVE Total(_, _)
Total(vals, idx) ==
    IF idx = {} THEN 0
    ELSE LET i == CHOOSE j \in idx : TRUE
         IN  vals[i] + Total(vals, idx \ {i})

\* every experiment of the list has status st
AllStatus(shown, st) == \A i \in DOMAIN shown : shown[i].experiment_status = st

\* C40: _get_expset_status reports a set as pending iff all its experiments
\* are pending, as finished iff not all are pending and all are finished,
\* and as running otherwise; a non-empty set is reported finished only when
\* every experiment is finished; each count is the sum of the counter over
\* the experiments, observation_length being the sum of
\* dataset.size * num_metrics.
C40_ExpsetStatus ==
    \A h \in Handlers :
        ("request" \in DOMAIN handlers[h] /\ handlers[h].request.kind = "expset_status")
        => LET shown == handlers[h].request.body
               status == handlers[h].response.status
               counts == handlers[h].response.counts
               idx == DOMAIN shown
           IN  /\ status = status_codes["pending"] <=> AllStatus(shown, "pending")
               /\ status = status_codes["finished"]
                  <=> (~AllStatus(shown, "pending") /\ AllStatus(shown, "finished"))
               /\ status = status_codes["running"]
                  <=> (~AllStatus(shown, "pending") /\ ~AllStatus(shown, "finished"))
               /\ (shown # <<>> /\ status = status_codes["finished"])
                  => \A i \in idx : shown[i].experiment_status = "finished"
               /\ counts.total_answer_tries = Total([i \in idx |-> shown[i].num_try], idx)
               /\ counts.total_answer_successes = Total([i \in idx |-> shown[i].num_success], idx)
               /\ counts.total_observation_tries
                  = Total([i \in idx |-> shown[i].num_observation_try], idx)
               /\ counts.total_observation_successes
                  = Total([i \in idx |-> shown[i].num_observation_success], idx)
               /\ counts.answer_length = Total([i \in idx |-> shown[i].dataset.size], idx)
               /\ counts.observation_length
                  = Total([i \in idx |-> shown[i].dataset.size * shown[i].num_metrics],
                          idx)

\* the dashboard has shown a set of two experiments, one finished with two
\* metrics and one running its answers: the set is running and the
\* observation length counts each experiment's rows once per metric
C40_Witness ==
    \E h \in Handlers :
        /\ "request" \in DOMAIN handlers[h]
        /\ handlers[h].request.kind = "expset_status"
        /\ Len(handlers[h].request.body) = 2
        /\ handlers[h].request.body[1].experiment_status = "finished"
        /\ handlers[h].request.body[1].num_metrics = 2
        /\ handlers[h].request.body[1].dataset.size = DatasetSize
        /\ handlers[h].request.body[2].experiment_status = "running_answers"
        /\ handlers[h].request.body[2].num_metrics = 1
        /\ handlers[h].request.body[2].dataset.size = 1
        /\ handlers[h].response.status = status_codes["running"]
        /\ handlers[h].response.counts.observation_length = 2 * DatasetSize + 1

====
